---- MODULE Spec2Model ----
(***************************************************************************)
(* certparse: the certdata.txt scanner (ScanValue, ScanObject), the object *)
(* reader (ReadObjects) and the trust resolution / certificate extraction  *)
(* (findTrusted, ReadTrustedCerts).                                        *)
(*                                                                         *)
(* A Go string is a sequence of chunks.  A chunk is a TLA+ string that     *)
(* stands for its own characters: one-character chunks are ordinary bytes, *)
(* longer chunks are keywords ("CKA_CLASS", "MULTILINE") that the inputs   *)
(* only ever contain whole.  A byte produced by the octal decoder is the   *)
(* chunk Chr(n).  len() of a Go string is the sum of the chunk widths.     *)
(***************************************************************************)
EXTENDS Integers, Sequences, FiniteSets, TLC

VARIABLES ms, ret, calls, values, objects, pc, trusted, certs, err, first, bytes,
          rootcerts, serverCertPool, serverOnce, pools, DefaultTransport, transport, configs, goroutines,
          outputFile, source, target, target16, tplParams, files, mainpc

parserVars == <<ms, ret, calls, values, objects, pc, trusted, certs, err, first, bytes>>

\* the generated package: its certificate list, the pool and its sync.Once,
\* the CertPool and tls.Config objects of the heap, http.DefaultTransport and
\* the http.Transport it points to, and the goroutines calling the package
pkgVars == <<rootcerts, serverCertPool, serverOnce, pools, DefaultTransport, transport, configs, goroutines>>

\* gencerts: the -target flag, what ReadTrustedCerts makes of the source,
\* the two writers of main, the certificates handed to the templates, the
\* content of the files (standard output included) and the position in main
genVars == <<outputFile, source, target, target16, tplParams, files, mainpc>>

vars == <<ms, ret, calls, values, objects, pc, trusted, certs, err, first, bytes,
          rootcerts, serverCertPool, serverOnce, pools, DefaultTransport, transport, configs, goroutines,
          outputFile, source, target, target16, tplParams, files, mainpc>>

(***************************************************************************)
(* Bounds of the model.                                                    *)
(***************************************************************************)
MaxBody == 3
MaxCalls == 5
MaxTokens == 4
MaxTrustObjs == 2
MaxObjs == 3
MaxBytes == 3
MaxRegion == 3
MaxCerts == 2
MaxGoroutines == 2

(***************************************************************************)
(* Go values.                                                              *)
(***************************************************************************)
Nil == "nil"
EmptyStr == << >>
SP == " "
NL == "\n"
BS == "\\"
DQ == "\""
SQ == "'"

ErrNoBegin == "BEGINDATA line not found in certdata input"
ErrEOF == "unexpected EOF in multiline value"
ErrParseInt == "strconv.ParseInt: invalid syntax"
ErrSyntax == "invalid syntax"
ErrUnknownTrust == "unknown trust level referenced"

BEGINDATA == <<"BEGINDATA">>
END == <<"END">>
CKA_CLASS == <<"CKA_CLASS">>
CKA_LABEL == <<"CKA_LABEL">>
CKA_VALUE == <<"CKA_VALUE">>
CKA_TRUST_SERVER_AUTH == <<"CKA_TRUST_SERVER_AUTH">>
CKA_TRUST_EMAIL_PROTECTION == <<"CKA_TRUST_EMAIL_PROTECTION">>
CKA_TRUST_CODE_SIGNING == <<"CKA_TRUST_CODE_SIGNING">>
CKO_CERTIFICATE == <<"CKO_CERTIFICATE">>
CKO_NSS_TRUST == <<"CKO_NSS_TRUST">>
CKT_NSS_TRUSTED_DELEGATOR == <<"CKT_NSS_TRUSTED_DELEGATOR">>
CKT_NSS_MUST_VERIFY_TRUST == <<"CKT_NSS_MUST_VERIFY_TRUST">>
CKT_NSS_NOT_TRUSTED == <<"CKT_NSS_NOT_TRUSTED">>
UTF8 == <<"UTF8">>
MULTILINE == <<"MULTILINE">>
MULTILINE_ == <<"MULTILINE", "_">>
OCTAL == <<"OCTAL">>

knownTrustLevels == <<CKT_NSS_TRUSTED_DELEGATOR, CKT_NSS_MUST_VERIFY_TRUST, CKT_NSS_NOT_TRUSTED>>
trustedDelegator == CKT_NSS_TRUSTED_DELEGATOR

ZeroValue == [Field |-> EmptyStr, Type |-> EmptyStr, Value |-> EmptyStr]
NilObject == << >>
ZeroTrust == [ServerTrustedDelegator |-> FALSE, EmailTrustedDelegator |-> FALSE, CodeTrustedDelegator |-> FALSE]

(***************************************************************************)
(* Byte-level string operations on chunk sequences.                        *)
(***************************************************************************)
RECURSIVE StrLen(_)
StrLen(s) == IF s = << >> THEN 0 ELSE Len(Head(s)) + StrLen(Tail(s))

\* the characters of s, one per element; a character inside a keyword chunk
\* is a letter or an underscore and is written "?"
RECURSIVE Chars(_)
Chars(s) ==
    IF s = << >> THEN << >>
    ELSE IF Len(Head(s)) = 1 THEN <<Head(s)>> \o Chars(Tail(s))
    ELSE [i \in 1..Len(Head(s)) |-> "?"] \o Chars(Tail(s))

\* s[n:], defined when n <= len(s) and n falls between two chunks
RECURSIVE SliceFrom(_, _)
SliceFrom(s, n) ==
    IF n = 0 THEN s ELSE SliceFrom(Tail(s), n - Len(Head(s)))

HasPrefix(s, p) == Len(s) >= Len(p) /\ SubSeq(s, 1, Len(p)) = p

\* index of the first chunk of s equal to c, 0 when there is none
RECURSIVE IndexOf(_, _, _)
IndexOf(s, c, i) ==
    IF i > Len(s) THEN 0
    ELSE IF s[i] = c THEN i
    ELSE IndexOf(s, c, i + 1)

\* strings.SplitN(line, " ", 3)
SplitN3(line) ==
    LET i == IndexOf(line, SP, 1) IN
    IF i = 0 THEN <<line>>
    ELSE LET p1 == SubSeq(line, 1, i - 1)
             rest == SubSeq(line, i + 1, Len(line))
             j == IndexOf(rest, SP, 1)
         IN IF j = 0 THEN <<p1, rest>>
            ELSE <<p1, SubSeq(rest, 1, j - 1), SubSeq(rest, j + 1, Len(rest))>>

\* strings.Join(v, "\n")
RECURSIVE Join(_)
Join(v) ==
    IF v = << >> THEN << >>
    ELSE IF Len(v) = 1 THEN v[1]
    ELSE v[1] \o <<NL>> \o Join(Tail(v))

\* string(byte): the chunk of one decoded byte
Chr(n) == IF n = 65 THEN "A" ELSE IF n = 66 THEN "B" ELSE "x" \o ToString(n)

OctalDigits == {"0", "1", "2", "3", "4", "5", "6", "7"}
DigitVal(c) == CASE c = "0" -> 0 [] c = "1" -> 1 [] c = "2" -> 2 [] c = "3" -> 3
                 [] c = "4" -> 4 [] c = "5" -> 5 [] c = "6" -> 6 [] c = "7" -> 7

RECURSIVE OctalVal(_, _)
OctalVal(d, acc) == IF d = << >> THEN acc ELSE OctalVal(Tail(d), acc * 8 + DigitVal(Head(d)))

\* strconv.ParseInt(s, 8, 16) on a three-character string: an optional sign,
\* then at least one digit, all of them octal; three digits never overflow
ParseInt(s) ==
    LET signed == s # << >> /\ s[1] \in {"+", "-"}
        digits == IF signed THEN Tail(s) ELSE s
    IN IF digits = << >> \/ \E k \in 1..Len(digits) : digits[k] \notin OctalDigits
       THEN [n |-> 0, err |-> ErrParseInt]
       ELSE [n |-> IF signed /\ s[1] = "-" THEN 0 - OctalVal(digits, 0) ELSE OctalVal(digits, 0),
             err |-> Nil]

\* byte(n) keeping seven bits only
ToByte7Bit(n) == n % 128

\* byte(n)
ToByte(n) == n % 256

\* strconv.Unquote on the characters the inputs use: double-quoted strings
\* with the escapes of backslash, quote and n, and single-quoted characters
\* (no input line holds a back quote, a non-ASCII rune, or a backslash before
\* a digit or one of a b f r t v x u U); an empty pair of single quotes takes
\* the path without escapes and is accepted
RECURSIVE UnquoteBody(_, _)
UnquoteBody(s, quote) ==
    IF s = << >> THEN [v |-> << >>, err |-> Nil]
    ELSE IF s[1] = quote \/ s[1] = NL THEN [v |-> << >>, err |-> ErrSyntax]
    ELSE IF s[1] = BS
         THEN IF Len(s) < 2 THEN [v |-> << >>, err |-> ErrSyntax]
              ELSE LET c == s[2]
                       r == UnquoteBody(SubSeq(s, 3, Len(s)), quote)
                   IN IF c = BS THEN [v |-> <<BS>> \o r.v, err |-> r.err]
                      ELSE IF c = "n" THEN [v |-> <<NL>> \o r.v, err |-> r.err]
                      ELSE IF c = quote THEN [v |-> <<quote>> \o r.v, err |-> r.err]
                      ELSE [v |-> << >>, err |-> ErrSyntax]
    ELSE LET r == UnquoteBody(Tail(s), quote)
         IN [v |-> <<s[1]>> \o r.v, err |-> r.err]

Unquote(s) ==
    LET c == Chars(s)
        n == Len(c)
    IN IF n < 2 \/ c[1] # c[n] THEN [v |-> << >>, err |-> ErrSyntax]
       ELSE LET body == SubSeq(c, 2, n - 1) IN
            IF c[1] = DQ
            THEN IF IndexOf(body, BS, 1) = 0 /\ IndexOf(body, DQ, 1) = 0 /\ IndexOf(body, NL, 1) = 0
                 THEN [v |-> SubSeq(s, 2, Len(s) - 1), err |-> Nil]
                 ELSE UnquoteBody(body, DQ)
            ELSE IF c[1] = SQ
            THEN IF IndexOf(body, BS, 1) = 0 /\ IndexOf(body, SQ, 1) = 0 /\ IndexOf(body, NL, 1) = 0
                 THEN IF Len(body) <= 1 THEN [v |-> SubSeq(s, 2, Len(s) - 1), err |-> Nil]
                      ELSE [v |-> << >>, err |-> ErrSyntax]
                 ELSE LET r == UnquoteBody(body, SQ)
                      IN IF r.err = Nil /\ Len(r.v) = 1 THEN r
                         ELSE [v |-> << >>, err |-> ErrSyntax]
            ELSE [v |-> << >>, err |-> ErrSyntax]

(***************************************************************************)
(* bufio.Scanner over the lines of the reader.                             *)
(***************************************************************************)
NewScanner(lines) == [lines |-> lines, pos |-> 0, done |-> FALSE]

\* ms.s.Scan(): TRUE and the next line, or FALSE at the end of the input
Scan(s) ==
    IF s.pos < Len(s.lines)
    THEN [ok |-> TRUE, s |-> [s EXCEPT !.pos = s.pos + 1]]
    ELSE [ok |-> FALSE, s |-> [s EXCEPT !.done = TRUE]]

Text(s) == s.lines[s.pos]

\* NewMozScanner handed, on a second run, the reader the first run drained
NewMozScannerDrained(f) ==
    [s |-> NewScanner(IF first.called THEN << >> ELSE f), ln |-> 0, skippedHeader |-> FALSE,
     lastValue |-> ZeroValue, valueError |-> Nil, lastObject |-> NilObject, objectError |-> Nil]

NewMozScanner(f) ==
    [s |-> NewScanner(f), ln |-> 0, skippedHeader |-> FALSE, lastValue |-> ZeroValue,
     valueError |-> Nil, lastObject |-> NilObject, objectError |-> Nil]

(***************************************************************************)
(* MozScanner: the value scanner.  Every operation returns the scanner     *)
(* after the call together with its results; panic is TRUE when the call   *)
(* aborts with a slice-bounds fault.                                       *)
(***************************************************************************)
\* skipHeader taking any line that starts with BEGINDATA for the sentinel
RECURSIVE skipHeaderPrefix(_)
skipHeaderPrefix(m) ==
    LET sc == Scan(m.s) IN
    IF ~sc.ok THEN [ms |-> [m EXCEPT !.s = sc.s], err |-> ErrNoBegin]
    ELSE LET m1 == [m EXCEPT !.s = sc.s, !.ln = m.ln + 1] IN
         IF HasPrefix(Text(sc.s), BEGINDATA)
         THEN [ms |-> [m1 EXCEPT !.skippedHeader = TRUE], err |-> Nil]
         ELSE skipHeaderPrefix(m1)

\* skipHeader: read lines up to and including the BEGINDATA line
RECURSIVE skipHeader(_)
skipHeader(m) ==
    LET sc == Scan(m.s) IN
    IF ~sc.ok THEN [ms |-> [m EXCEPT !.s = sc.s], err |-> ErrNoBegin]
    ELSE LET m1 == [m EXCEPT !.s = sc.s, !.ln = m.ln + 1] IN
         IF Text(sc.s) = BEGINDATA
         THEN [ms |-> [m1 EXCEPT !.skippedHeader = TRUE], err |-> Nil]
         ELSE skipHeader(m1)

\* the closure of readMultilineGeneric: v = append(v, line)
processGeneric(v, line) == [v |-> Append(v, line), err |-> Nil, panic |-> FALSE]

\* the closure of readMultilineOctal: one byte per 4-character group; the
\* first character of a group is not looked at, and line[i+1:i+4] faults
\* when fewer than 4 characters are left
RECURSIVE octalGroups(_, _, _)
octalGroups(c, i, v) ==
    IF i >= Len(c) THEN [v |-> v, err |-> Nil, panic |-> FALSE]
    ELSE IF i + 4 > Len(c) THEN [v |-> v, err |-> Nil, panic |-> TRUE]
    ELSE LET p == ParseInt(SubSeq(c, i + 2, i + 4)) IN
         IF p.err # Nil THEN [v |-> v, err |-> p.err, panic |-> FALSE]
         ELSE octalGroups(c, i + 4, Append(v, Chr(ToByte(p.n))))

processOctal(v, line) == octalGroups(Chars(line), 0, v)

\* readMultiline: feed the lines up to the END line to the closure; v is the
\* variable the closure appends to
RECURSIVE readMultiline(_, _, _)
readMultiline(m, kind, v) ==
    LET sc == Scan(m.s) IN
    IF ~sc.ok THEN [ms |-> [m EXCEPT !.s = sc.s], v |-> v, err |-> ErrEOF, panic |-> FALSE]
    ELSE LET m1 == [m EXCEPT !.s = sc.s, !.ln = m.ln + 1]
             line == Text(sc.s)
         IN IF line = END THEN [ms |-> m1, v |-> v, err |-> Nil, panic |-> FALSE]
            ELSE LET r == IF kind = "octal" THEN processOctal(v, line)
                          ELSE processGeneric(v, line)
                 IN IF r.panic \/ r.err # Nil
                    THEN [ms |-> m1, v |-> r.v, err |-> r.err, panic |-> r.panic]
                    ELSE readMultiline(m1, kind, r.v)

\* readMultilineGeneric: the error of readMultiline is dropped
readMultilineGeneric(m) ==
    LET r == readMultiline(m, "generic", << >>)
    IN [ms |-> r.ms, value |-> Join(r.v), err |-> Nil, panic |-> r.panic]

\* readMultilineOctal: the error of readMultiline is dropped
readMultilineOctal(m) ==
    LET r == readMultiline(m, "octal", << >>)
    IN [ms |-> r.ms, value |-> r.v, err |-> Nil, panic |-> r.panic]

\* parts[2][1 : len(parts[2])-1]; the region starts and ends with a
\* one-character chunk in every input
StripQuotes(p) ==
    IF StrLen(p) < 2 THEN [v |-> << >>, panic |-> TRUE]
    ELSE [v |-> SubSeq(p, 2, Len(p) - 1), panic |-> FALSE]

Returned(m, ok) == [ms |-> m, ok |-> ok, panic |-> FALSE]
Panicked(m) == [ms |-> m, ok |-> FALSE, panic |-> TRUE]
Token(m, field, ftype, value) ==
    Returned([m EXCEPT !.lastValue = [Field |-> field, Type |-> ftype, Value |-> value]], TRUE)

\* case ftype == "UTF8" && len(parts) > 2, u the result of strconv.Unquote
utf8Value(m, field, ftype, region, u) ==
    IF u.err = Nil THEN Token(m, field, ftype, u.v)
    ELSE IF StripQuotes(region).panic THEN Panicked(m)
    ELSE Token(m, field, ftype, StripQuotes(region).v)

\* case "OCTAL", r the result of readMultilineOctal
octalValue(r, field, ftype) ==
    IF r.panic THEN Panicked(r.ms)
    ELSE IF r.err # Nil THEN Returned([r.ms EXCEPT !.valueError = r.err], FALSE)
    ELSE Token(r.ms, field, ftype, r.value)

\* genericValue keeping what readMultilineGeneric returned
genericValueKept(r, field, ftype) ==
    IF r.panic THEN Panicked(r.ms)
    ELSE IF r.err # Nil THEN Returned([r.ms EXCEPT !.valueError = r.err], FALSE)
    ELSE Token(r.ms, field, ftype, r.value)

\* default: the value of an unhandled multiline encoding is swallowed
genericValue(r, field, ftype) ==
    IF r.panic THEN Panicked(r.ms)
    ELSE IF r.err # Nil THEN Returned([r.ms EXCEPT !.valueError = r.err], FALSE)
    ELSE Token(r.ms, field, ftype, EmptyStr)

\* scanField with the value variable kept from the token before
scanFieldCarry(m, parts) ==
    IF parts[2] = UTF8 /\ Len(parts) > 2
    THEN utf8Value(m, parts[1], parts[2], parts[3], Unquote(parts[3]))
    ELSE IF HasPrefix(parts[2], MULTILINE)
    THEN IF StrLen(parts[2]) < StrLen(MULTILINE_) THEN Panicked(m)
         ELSE IF SliceFrom(parts[2], StrLen(MULTILINE_)) = OCTAL
         THEN octalValue(readMultilineOctal(m), parts[1], parts[2])
         ELSE genericValue(readMultilineGeneric(m), parts[1], parts[2])
    ELSE Token(m, parts[1], parts[2], IF Len(parts) > 2 THEN parts[3] ELSE m.lastValue.Value)

\* the switch of ScanValue on a line split in at least two parts
scanField(m, parts) ==
    IF parts[2] = UTF8 /\ Len(parts) > 2
    THEN utf8Value(m, parts[1], parts[2], parts[3], Unquote(parts[3]))
    ELSE IF HasPrefix(parts[2], MULTILINE)
    THEN IF StrLen(parts[2]) < StrLen(MULTILINE_) THEN Panicked(m)
         ELSE IF SliceFrom(parts[2], StrLen(MULTILINE_)) = OCTAL
         THEN octalValue(readMultilineOctal(m), parts[1], parts[2])
         ELSE genericValue(readMultilineGeneric(m), parts[1], parts[2])
    ELSE Token(m, parts[1], parts[2], IF Len(parts) > 2 THEN parts[3] ELSE EmptyStr)

\* the for ms.s.Scan() loop of ScanValue
RECURSIVE ScanValueLoop(_)
scanLine(m, line, parts) ==
    IF Len(line) = 0 \/ Chars(line)[1] = "#" THEN ScanValueLoop(m)
    ELSE IF Len(parts) < 2 THEN ScanValueLoop(m)
    ELSE scanField(m, parts)

ScanValueLoop(m) ==
    LET sc == Scan(m.s) IN
    IF ~sc.ok THEN Returned([m EXCEPT !.s = sc.s], FALSE)
    ELSE scanLine([m EXCEPT !.s = sc.s, !.ln = m.ln + 1], Text(sc.s), SplitN3(Text(sc.s)))

ScanValue(m) ==
    LET m0 == [m EXCEPT !.valueError = Nil] IN
    IF ~m0.skippedHeader
    THEN LET h == skipHeader(m0) IN
         IF h.err # Nil THEN Returned([h.ms EXCEPT !.valueError = h.err], FALSE)
         ELSE ScanValueLoop(h.ms)
    ELSE ScanValueLoop(m0)

ScanValueError(m) == m.valueError
Value(m) == m.lastValue

(***************************************************************************)
(* MozScanner: the object scanner.  An object is a map from field name to  *)
(* value; a missing key reads as the empty string.                         *)
(***************************************************************************)
Get(obj, k) == IF k \in DOMAIN obj THEN obj[k] ELSE EmptyStr
\* an assignment that keeps the value a key already has
PutIfAbsent(obj, k, v) == [x \in (DOMAIN obj) \cup {k} |-> IF x \in DOMAIN obj THEN obj[x] ELSE v]

\* object[value.Field] = value.Value
Put(obj, k, v) == [x \in (DOMAIN obj) \cup {k} |-> IF x = k THEN v ELSE obj[x]]

\* for value.Field != "CKA_CLASS" && ms.ScanValue() { value = ms.Value() },
\* r the result of the ms.ScanValue() of the loop condition
RECURSIVE seekClass(_, _)
seekNext(r, value) ==
    IF r.panic THEN [ms |-> r.ms, value |-> value, panic |-> TRUE]
    ELSE IF ~r.ok THEN [ms |-> r.ms, value |-> value, panic |-> FALSE]
    ELSE seekClass(r.ms, Value(r.ms))

seekClass(m, value) ==
    IF value.Field = CKA_CLASS THEN [ms |-> m, value |-> value, panic |-> FALSE]
    ELSE seekNext(ScanValue(m), value)

\* for ms.ScanValue() { ... }: fold the fields up to the next CKA_CLASS,
\* r the result of the ms.ScanValue() of the loop condition
RECURSIVE foldFields(_, _)
foldNext(r, object) ==
    IF r.panic THEN Panicked(r.ms)
    ELSE IF r.ok
    THEN IF Value(r.ms).Field = CKA_CLASS
         THEN Returned([r.ms EXCEPT !.lastObject = object], TRUE)
         ELSE foldFields(r.ms, Put(object, Value(r.ms).Field, Value(r.ms).Value))
    ELSE IF ScanValueError(r.ms) # Nil
    THEN Returned([r.ms EXCEPT !.objectError = ScanValueError(r.ms)], FALSE)
    ELSE Returned([r.ms EXCEPT !.lastObject = object], TRUE)

foldFields(m, object) == foldNext(ScanValue(m), object)

\* afterSeek returning false on a ScanValue error without recording it
afterSeekSilent(a) ==
    IF a.panic THEN Panicked(a.ms)
    ELSE IF ScanValueError(a.ms) # Nil THEN Returned(a.ms, FALSE)
    ELSE IF a.value.Field # CKA_CLASS THEN Returned(a.ms, FALSE)
    ELSE foldFields(a.ms, Put(NilObject, a.value.Field, a.value.Value))

\* ScanObject after its first loop, a the scanner and value the loop left
afterSeek(a) ==
    IF a.panic THEN Panicked(a.ms)
    ELSE IF ScanValueError(a.ms) # Nil
    THEN Returned([a.ms EXCEPT !.objectError = a.ms.valueError], FALSE)
    ELSE IF a.value.Field # CKA_CLASS THEN Returned(a.ms, FALSE)
    ELSE foldFields(a.ms, Put(NilObject, a.value.Field, a.value.Value))

ScanObject(m) == afterSeek(seekClass([m EXCEPT !.objectError = Nil], Value(m)))

ScanObjectError(m) == m.objectError
Object(m) == m.lastObject

(***************************************************************************)
(* Trust resolution and certificate extraction.                            *)
(***************************************************************************)
contains(val, set) == \E i \in 1..Len(set) : set[i] = val

\* the payloads crypto/x509 accepts as a certificate
WellFormedDER == {<<"x48", "A">>, <<"x48", "B">>}

\* x509.ParseCertificate
ParseCertificate(data) ==
    IF data \in WellFormedDER THEN [cert |-> [Raw |-> data], err |-> Nil]
    ELSE [cert |-> [Raw |-> EmptyStr], err |-> "x509: malformed certificate"]

\* trustOf variants: a declaration with an unknown code skipped instead of
\* failing; an entry stored even when no purpose bit is set; no veto by
\* CKT_NSS_NOT_TRUSTED
trustOfVariant(obj, acc, skipUnknown, storeEmpty, noVeto) ==
    LET serverTrust == Get(obj, CKA_TRUST_SERVER_AUTH)
        emailTrust == Get(obj, CKA_TRUST_EMAIL_PROTECTION)
        codeTrust == Get(obj, CKA_TRUST_CODE_SIGNING)
        trust == [ServerTrustedDelegator |-> serverTrust = CKT_NSS_TRUSTED_DELEGATOR,
                  EmailTrustedDelegator |-> emailTrust = CKT_NSS_TRUSTED_DELEGATOR,
                  CodeTrustedDelegator |-> codeTrust = CKT_NSS_TRUSTED_DELEGATOR]
        unknown == \/ ~contains(serverTrust, knownTrustLevels)
                   \/ ~contains(emailTrust, knownTrustLevels)
                   \/ ~contains(codeTrust, knownTrustLevels)
    IN IF unknown
       THEN IF skipUnknown THEN [trusted |-> acc, err |-> Nil]
            ELSE [trusted |-> << >>, err |-> ErrUnknownTrust]
       ELSE IF ~noVeto /\ (serverTrust = CKT_NSS_NOT_TRUSTED \/ emailTrust = CKT_NSS_NOT_TRUSTED
                             \/ codeTrust = CKT_NSS_NOT_TRUSTED)
       THEN [trusted |-> acc, err |-> Nil]
       ELSE IF storeEmpty \/ trust.ServerTrustedDelegator \/ trust.EmailTrustedDelegator
               \/ trust.CodeTrustedDelegator
       THEN [trusted |-> Put(acc, Get(obj, CKA_LABEL), trust), err |-> Nil]
       ELSE [trusted |-> acc, err |-> Nil]
trustOfSkipUnknown(obj, acc) == trustOfVariant(obj, acc, TRUE, FALSE, FALSE)
trustOfStoreEmpty(obj, acc) == trustOfVariant(obj, acc, FALSE, TRUE, FALSE)
trustOfNoVeto(obj, acc) == trustOfVariant(obj, acc, FALSE, FALSE, TRUE)

\* the body of the loop of findTrusted for one trust declaration: the map
\* after it, or an error
trustOf(obj, acc) ==
    LET serverTrust == Get(obj, CKA_TRUST_SERVER_AUTH)
        emailTrust == Get(obj, CKA_TRUST_EMAIL_PROTECTION)
        codeTrust == Get(obj, CKA_TRUST_CODE_SIGNING)
        trust == [ServerTrustedDelegator |-> serverTrust = CKT_NSS_TRUSTED_DELEGATOR,
                  EmailTrustedDelegator |-> emailTrust = CKT_NSS_TRUSTED_DELEGATOR,
                  CodeTrustedDelegator |-> codeTrust = CKT_NSS_TRUSTED_DELEGATOR]
    IN IF ~contains(serverTrust, knownTrustLevels) THEN [trusted |-> << >>, err |-> ErrUnknownTrust]
       ELSE IF ~contains(emailTrust, knownTrustLevels) THEN [trusted |-> << >>, err |-> ErrUnknownTrust]
       ELSE IF ~contains(codeTrust, knownTrustLevels) THEN [trusted |-> << >>, err |-> ErrUnknownTrust]
       ELSE IF serverTrust = CKT_NSS_NOT_TRUSTED \/ emailTrust = CKT_NSS_NOT_TRUSTED
               \/ codeTrust = CKT_NSS_NOT_TRUSTED
       THEN [trusted |-> acc, err |-> Nil]
       ELSE IF trust.ServerTrustedDelegator \/ trust.EmailTrustedDelegator \/ trust.CodeTrustedDelegator
       THEN [trusted |-> Put(acc, Get(obj, CKA_LABEL), trust), err |-> Nil]
       ELSE [trusted |-> acc, err |-> Nil]

RECURSIVE findTrustedLoop(_, _, _)
findTrustedLoop(objs, i, acc) ==
    IF i > Len(objs) THEN [trusted |-> acc, err |-> Nil]
    ELSE IF Get(objs[i], CKA_CLASS) # CKO_NSS_TRUST THEN findTrustedLoop(objs, i + 1, acc)
    ELSE LET r == trustOf(objs[i], acc) IN
         IF r.err # Nil THEN r ELSE findTrustedLoop(objs, i + 1, r.trusted)

findTrusted(objs) == findTrustedLoop(objs, 1, << >>)

\* extractCerts emitting a record although the payload does not decode
RECURSIVE extractCertsKeepUndecoded(_, _, _, _)
extractCertsKeepUndecoded(objs, i, trustMap, out) ==
    IF i > Len(objs) THEN out
    ELSE LET obj == objs[i]
             label == Get(obj, CKA_LABEL)
             parsed == ParseCertificate(Get(obj, CKA_VALUE))
         IN IF Get(obj, CKA_CLASS) # CKO_CERTIFICATE
            THEN extractCertsKeepUndecoded(objs, i + 1, trustMap, out)
            ELSE IF label \notin DOMAIN trustMap
            THEN extractCertsKeepUndecoded(objs, i + 1, trustMap, out)
            ELSE extractCertsKeepUndecoded(objs, i + 1, trustMap,
                     Append(out, [Label |-> label, Data |-> Get(obj, CKA_VALUE),
                                  Cert |-> parsed.cert, Trust |-> trustMap[label]]))

\* extractCerts putting each record in front of the ones before it
RECURSIVE extractCertsReversed(_, _, _, _)
extractCertsReversed(objs, i, trustMap, out) ==
    IF i > Len(objs) THEN out
    ELSE LET obj == objs[i]
             label == Get(obj, CKA_LABEL)
             parsed == ParseCertificate(Get(obj, CKA_VALUE))
         IN IF Get(obj, CKA_CLASS) # CKO_CERTIFICATE
            THEN extractCertsReversed(objs, i + 1, trustMap, out)
            ELSE IF label \notin DOMAIN trustMap
            THEN extractCertsReversed(objs, i + 1, trustMap, out)
            ELSE IF parsed.err # Nil THEN extractCertsReversed(objs, i + 1, trustMap, out)
            ELSE extractCertsReversed(objs, i + 1, trustMap,
                     <<[Label |-> label, Data |-> Get(obj, CKA_VALUE),
                        Cert |-> parsed.cert, Trust |-> trustMap[label]]>> \o out)

\* extractCerts resolving the trust of each certificate over the objects up
\* to it only (a single pass over the input)
RECURSIVE extractCertsStreaming(_, _, _, _)
extractCertsStreaming(objs, i, trustMap, out) ==
    IF i > Len(objs) THEN out
    ELSE LET obj == objs[i]
             label == Get(obj, CKA_LABEL)
             parsed == ParseCertificate(Get(obj, CKA_VALUE))
             seen == findTrusted(SubSeq(objs, 1, i)).trusted
         IN IF Get(obj, CKA_CLASS) # CKO_CERTIFICATE
            THEN extractCertsStreaming(objs, i + 1, trustMap, out)
            ELSE IF label \notin DOMAIN seen THEN extractCertsStreaming(objs, i + 1, trustMap, out)
            ELSE IF parsed.err # Nil THEN extractCertsStreaming(objs, i + 1, trustMap, out)
            ELSE extractCertsStreaming(objs, i + 1, trustMap,
                     Append(out, [Label |-> label, Data |-> Get(obj, CKA_VALUE),
                                  Cert |-> parsed.cert, Trust |-> seen[label]]))

\* the loop of ReadTrustedCerts over the objects
RECURSIVE extractCerts(_, _, _, _)
extractCerts(objs, i, trustMap, out) ==
    IF i > Len(objs) THEN out
    ELSE LET obj == objs[i]
             label == Get(obj, CKA_LABEL)
             parsed == ParseCertificate(Get(obj, CKA_VALUE))
         IN IF Get(obj, CKA_CLASS) # CKO_CERTIFICATE THEN extractCerts(objs, i + 1, trustMap, out)
            ELSE IF label \notin DOMAIN trustMap THEN extractCerts(objs, i + 1, trustMap, out)
            ELSE IF parsed.err # Nil THEN extractCerts(objs, i + 1, trustMap, out)
            ELSE extractCerts(objs, i + 1, trustMap,
                     Append(out, [Label |-> label, Data |-> Get(obj, CKA_VALUE),
                                  Cert |-> parsed.cert, Trust |-> trustMap[label]]))

(***************************************************************************)
(* The generated package (the template of gencerts): TrustLevel is an int  *)
(* of purpose bits, certs the embedded list.                               *)
(***************************************************************************)
ServerTrustedDelegator == 1
EmailTrustedDelegator == 2
CodeTrustedDelegator == 4

\* a & b on non-negative ints
RECURSIVE BitAnd(_, _)
BitAnd(a, b) ==
    IF a = 0 \/ b = 0 THEN 0
    ELSE (a % 2) * (b % 2) + 2 * BitAnd(a \div 2, b \div 2)

\* CertsByTrust keeping the certificates that share some bit with t
RECURSIVE byTrustAnyLoop(_, _, _, _)
byTrustAnyLoop(cs, t, i, result) ==
    IF i > Len(cs) THEN result
    ELSE IF BitAnd(cs[i].Trust, t) # 0 THEN byTrustAnyLoop(cs, t, i + 1, Append(result, cs[i]))
    ELSE byTrustAnyLoop(cs, t, i + 1, result)
CertsByTrustAny(t) == byTrustAnyLoop(rootcerts, t, 1, << >>)

\* for _, c := range certs { if c.Trust&t == t { result = append(result, c) } }
RECURSIVE byTrustLoop(_, _, _, _)
byTrustLoop(cs, t, i, result) ==
    IF i > Len(cs) THEN result
    ELSE IF BitAnd(cs[i].Trust, t) = t THEN byTrustLoop(cs, t, i + 1, Append(result, cs[i]))
    ELSE byTrustLoop(cs, t, i + 1, result)
CertsByTrust(t) == byTrustLoop(rootcerts, t, 1, << >>)

\* c.X509Cert(): the parsed certificate, or a panic
X509Cert(c) ==
    [cert |-> ParseCertificate(c.DER).cert, panic |-> ParseCertificate(c.DER).err # Nil]

\* sync.Once running its function whenever the lock is obtained
onceAlwaysRuns(once) == TRUE

\* sync.Once, under its lock: the function runs when no call has completed
onceMustRun(once) == ~once.done

ErrNotTransport == "http.DefaultTransport is not an *http.Transport"
NilInterface == [type |-> "nil", ptr |-> 0]
ZeroConfig == [ServerName |-> "", RootCAs |-> 0]

\* the existing configuration overwritten by a new tls.Config
replaceConfig(cfgs, id, pool) == [cfgs EXCEPT ![id] = [ZeroConfig EXCEPT !.RootCAs = pool]]

\* t.TLSClientConfig.RootCAs = pool
setRootCAs(cfgs, id, pool) == [cfgs EXCEPT ![id].RootCAs = pool]

\* io.Writer values: os.Stdout, a nil interface, a created file; and the
\* files of a run before anything is written
Stdout == [fd |-> "stdout", name |-> << >>]
NilWriter == [fd |-> "nil", name |-> << >>]
File(name) == [fd |-> "file", name |-> name]
NoFiles == (Stdout :> << >>)

(***************************************************************************)
(* gencerts: the command that writes the generated package.  A file name   *)
(* is a sequence of characters; a template writes the entries of the       *)
(* certificates it selects.                                                *)
(***************************************************************************)
\* filepath.Ext: the suffix from the last dot of the last path element
RECURSIVE extFrom(_, _)
extFrom(path, i) ==
    IF i < 1 THEN << >>
    ELSE IF path[i] = "/" THEN << >>
    ELSE IF path[i] = "." THEN SubSeq(path, i, Len(path))
    ELSE extFrom(path, i - 1)
Ext(path) == extFrom(path, Len(path))

fmt16name(name) ==
    IF Ext(name) # << >>
    THEN SubSeq(name, 1, Len(name) - Len(Ext(name))) \o <<"_", "1", "6">> \o Ext(name)
    ELSE << >>

RECURSIVE hasNegFrom(_, _)
hasNegFrom(cs, i) ==
    IF i > Len(cs) THEN FALSE
    ELSE IF cs[i].Cert.SerialNumber < 0 THEN TRUE
    ELSE hasNegFrom(cs, i + 1)
hasNeg(cs) == hasNegFrom(cs, 1)

\* the entry a template writes for a certificate
Entry(c) ==
    [Label |-> c.Label, Serial |-> c.Cert.SerialNumber, Trust |-> c.Trust, DER |-> c.Cert.Raw]

\* {{range .certs}}{{if ge .Cert.SerialNumber.Sign 0}} ... {{end}}{{end}}
RECURSIVE mainEntries(_, _, _)
mainEntries(cs, i, out) ==
    IF i > Len(cs) THEN out
    ELSE IF cs[i].Cert.SerialNumber >= 0 THEN mainEntries(cs, i + 1, Append(out, Entry(cs[i])))
    ELSE mainEntries(cs, i + 1, out)

\* {{range .certs}}{{if lt .Cert.SerialNumber.Sign 0}} ... {{end}}{{end}}
RECURSIVE negEntries(_, _, _)
negEntries(cs, i, out) ==
    IF i > Len(cs) THEN out
    ELSE IF cs[i].Cert.SerialNumber < 0 THEN negEntries(cs, i + 1, Append(out, Entry(cs[i])))
    ELSE negEntries(cs, i + 1, out)

\* tpl.ExecuteTemplate(w, name, tplParams) appends to what w holds
ExecuteTemplate(fs, w, name, params) ==
    [fs EXCEPT ![w] = Append(@, [tpl |-> name,
                                 certs |-> IF name = "main" THEN mainEntries(params.certs, 1, << >>)
                                           ELSE negEntries(params.certs, 1, << >>)])]

\* os.Create: the file exists and is empty
Create(fs, name) == [w \in (DOMAIN fs) \cup {File(name)} |-> IF w = File(name) THEN << >> ELSE fs[w]]

(***************************************************************************)
(* Inputs.                                                                 *)
(***************************************************************************)
SeqsUpTo(S, n) == UNION {[1..k -> S] : k \in 0..n}

RECURSIVE Flatten(_)
Flatten(ss) == IF ss = << >> THEN << >> ELSE Head(ss) \o Flatten(Tail(ss))

\* lines of the value scanner's inputs
CommentLine == <<"#", "c">>
WordLine == <<"w">>
PlainLine == <<"F", SP, "T">>
SpacedLine == <<"G", SP, "T", SP, "v", SP, "w">>
ClassLineA == <<"CKA_CLASS", SP, "T", SP, "a">>
QuotedLine == <<"U", SP, "UTF8", SP, DQ, "a", DQ>>
OctalOpen == <<"O", SP, "MULTILINE", "_", "OCTAL">>
GenericOpen == <<"M", SP, "MULTILINE", "_", "UNKNOWN">>
OctalA == <<BS, "1", "0", "1">>
OctalBad == <<BS, "1", "8", "1">>
OctalNoBackslash == <<"x", "1", "0", "2">>
EmptyTypeLine == <<"H", SP, SP, "x">>
NearBegin == <<"BEGINDATA", SP>>

ValueLines == {CommentLine, WordLine, PlainLine, SpacedLine, EmptyTypeLine, ClassLineA, QuotedLine,
               OctalOpen, GenericOpen, OctalA, OctalBad, OctalNoBackslash, END}
ValueHeaders == {<<BEGINDATA>>, <<WordLine, BEGINDATA>>, << >>, <<NearBegin>>}
\* up to MaxBody lines after the plain header, one less after the others
ValueInputs ==
    {<<BEGINDATA>> \o b : b \in SeqsUpTo(ValueLines, MaxBody)}
        \cup {h \o b : h \in ValueHeaders \ {<<BEGINDATA>>}, b \in SeqsUpTo(ValueLines, MaxBody - 1)}

\* lines that open a MULTILINE value without a sub-type, octal lines whose
\* length is not a multiple of 4 and a UTF8 region of one character, among
\* well-formed lines
BareMultiline == <<"B", SP, "MULTILINE">>
OctalShort == <<BS, "1", "0">>
OctalLong == <<BS, "1", "0", "1", BS, "1">>
ShortRegion == <<"U", SP, "UTF8", SP, "z">>
EdgeLines ==
    {PlainLine, QuotedLine, OctalOpen, GenericOpen, OctalA, END,
     BareMultiline, OctalShort, OctalLong, ShortRegion}
EdgeInputs == {<<BEGINDATA>> \o b : b \in SeqsUpTo(EdgeLines, MaxBody)}

\* MULTILINE_OCTAL blocks: the bytes bs written as one group of a backslash
\* and three octal digits each, a new line started after every position of
\* cuts
ByteSample == {0, 7, 8, 65, 66, 127, 128, 255}
EncodeByte(b) == <<BS, ToString(b \div 64), ToString((b \div 8) % 8), ToString(b % 8)>>

RECURSIVE EncodeLines(_, _, _, _)
EncodeLines(bs, cuts, i, line) ==
    IF i > Len(bs) THEN (IF line = << >> THEN << >> ELSE <<line>>)
    ELSE IF i \in cuts
    THEN <<line \o EncodeByte(bs[i])>> \o EncodeLines(bs, cuts, i + 1, << >>)
    ELSE EncodeLines(bs, cuts, i + 1, line \o EncodeByte(bs[i]))

OctalBlock(bs, cuts) == <<BEGINDATA, OctalOpen>> \o EncodeLines(bs, cuts, 1, << >>) \o <<END>>
ByteSeqs == SeqsUpTo(ByteSample, MaxBytes)

\* UTF8 fields: every inline region over quotes, the backslash and two
\* letters, on the line after an ordinary field
RegionChars == {DQ, SQ, BS, "n", "z"}
Utf8Line(region) == <<"U", SP, "UTF8", SP>> \o region
Utf8Inputs == {<<BEGINDATA, SpacedLine, Utf8Line(r)>> : r \in SeqsUpTo(RegionChars, MaxRegion)}

\* lines of the object scanner's inputs: one token per line
ClassLineB == <<"CKA_CLASS", SP, "T", SP, "b">>
FieldX1 == <<"X", SP, "T", SP, "1">>
FieldX2 == <<"X", SP, "T", SP, "2">>
FieldY1 == <<"Y", SP, "T", SP, "1">>
TokenLines == {ClassLineA, ClassLineB, FieldX1, FieldX2, FieldY1}
ObjectInputs == {h \o b : h \in {<<BEGINDATA>>, << >>}, b \in SeqsUpTo(TokenLines, MaxTokens)}

\* certdata objects, as the lines that declare them
L1 == <<"L1">>
L2 == <<"L2">>
Absent == <<"absent">>
CKT_UNKNOWN == <<"CKT_NSS_TRUST_UNKNOWN">>
CKO_OTHER == <<"CKO_NSS_BUILTIN_ROOT_LIST">>
GoodDER == <<BS, "0", "6", "0", BS, "1", "0", "1">>
GoodDER2 == <<BS, "0", "6", "0", BS, "1", "0", "2">>
BadDER == <<BS, "1", "0", "1">>

ClassLine(class) == <<"CKA_CLASS", SP, "CK_OBJECT_CLASS", SP>> \o class
LabelLine(label) == <<"CKA_LABEL", SP, "UTF8", SP, DQ>> \o label \o <<DQ>>
TrustLine(field, code) == IF code = Absent THEN << >> ELSE <<field \o <<SP, "CK_TRUST", SP>> \o code>>

CertLines(label, octal) ==
    <<ClassLine(CKO_CERTIFICATE), LabelLine(label), <<"CKA_VALUE", SP, "MULTILINE", "_", "OCTAL">>,
      octal, END>>
TrustLines(label, s, e, c) ==
    <<ClassLine(CKO_NSS_TRUST), LabelLine(label)>> \o TrustLine(CKA_TRUST_SERVER_AUTH, s)
        \o TrustLine(CKA_TRUST_EMAIL_PROTECTION, e) \o TrustLine(CKA_TRUST_CODE_SIGNING, c)
OtherLines == <<ClassLine(CKO_OTHER), LabelLine(<<"Mozilla">>)>>
BareLines == <<ClassLine(CKO_OTHER)>>

TD == CKT_NSS_TRUSTED_DELEGATOR
MV == CKT_NSS_MUST_VERIFY_TRUST
NT == CKT_NSS_NOT_TRUSTED

CertdataObjects ==
    {CertLines(L1, GoodDER), CertLines(L1, GoodDER2), CertLines(L1, BadDER),
     CertLines(L2, GoodDER),
     TrustLines(L1, TD, NT, MV), TrustLines(L1, TD, MV, MV), TrustLines(L2, MV, TD, TD),
     TrustLines(L2, TD, CKT_UNKNOWN, TD), TrustLines(L1, TD, TD, Absent),
     OtherLines, BareLines}
\* certdata files, and files of a single object that lack the BEGINDATA line
CertdataInputs ==
    {<<BEGINDATA>> \o Flatten(o) : o \in SeqsUpTo(CertdataObjects, MaxObjs)}
        \cup {Flatten(o) : o \in SeqsUpTo(CertdataObjects, 1)}

\* objects of the files whose declarations are moved: two certificates, two
\* declarations that give their label different levels, one that vetoes,
\* one with an unknown code, and an unrelated object
OrderObjects ==
    {CertLines(L1, GoodDER), CertLines(L2, GoodDER),
     TrustLines(L1, TD, MV, MV), TrustLines(L1, MV, TD, MV), TrustLines(L1, TD, NT, MV),
     TrustLines(L2, TD, CKT_UNKNOWN, TD), BareLines}

\* the objects of a certdata file as blocks of lines, each from a CKA_CLASS
\* line up to the line before the next one
ClassLineAt(lines) == {i \in 1..Len(lines) : lines[i] # << >> /\ lines[i][1] = "CKA_CLASS"}
BlockCount(lines) == Cardinality(ClassLineAt(lines))
BlockStart(lines, k) ==
    CHOOSE i \in ClassLineAt(lines) : Cardinality({j \in ClassLineAt(lines) : j <= i}) = k
BlockStop(lines, k) == IF k = BlockCount(lines) THEN Len(lines) ELSE BlockStart(lines, k + 1) - 1
Block(lines, k) == SubSeq(lines, BlockStart(lines, k), BlockStop(lines, k))
IsTrustBlock(b) == b[1] = ClassLine(CKO_NSS_TRUST)

TrustBlocks(lines) == {k \in 1..BlockCount(lines) : IsTrustBlock(Block(lines, k))}

\* the orders of n blocks that move trust declarations (the blocks of T) and
\* nothing else: p[j] is the block put at place j; some block changes place,
\* the declarations keep their order, and so do the other objects
MovesOf(n, T) ==
    {p \in [1..n -> 1..n] :
        /\ \E i \in 1..n : p[i] # i
        /\ \A i, j \in 1..n : p[i] = p[j] => i = j
        /\ \A i, j \in 1..n : (i < j /\ (p[i] \in T) = (p[j] \in T)) => p[i] < p[j]}
Moves(lines) == MovesOf(BlockCount(lines), TrustBlocks(lines))
RearrangedBlocks(blocks, p) == <<BEGINDATA>> \o Flatten([j \in DOMAIN blocks |-> blocks[p[j]]])
Rearranged(lines, p) ==
    RearrangedBlocks([k \in 1..BlockCount(lines) |-> Block(lines, k)], p)

\* assembled objects handed to findTrusted directly
TrustObject(label, s, e, c) ==
    (CKA_CLASS :> CKO_NSS_TRUST) @@ (CKA_LABEL :> label) @@ (CKA_TRUST_SERVER_AUTH :> s)
        @@ (CKA_TRUST_EMAIL_PROTECTION :> e) @@ (CKA_TRUST_CODE_SIGNING :> c)
TrustObjects ==
    {TrustObject(L1, s, e, c) : s \in {TD, MV, NT}, e \in {TD, MV, NT}, c \in {TD, MV, NT}}
        \cup {TrustObject(L2, s, e, c) : s \in {TD, MV}, e \in {TD, MV}, c \in {TD, MV}}
        \cup {TrustObject(L2, NT, TD, TD), TrustObject(L2, MV, MV, NT),
              TrustObject(L1, CKT_UNKNOWN, TD, TD), TrustObject(L1, TD, CKT_UNKNOWN, NT),
              TrustObject(L2, TD, TD, CKT_UNKNOWN),
              (CKA_CLASS :> CKO_NSS_TRUST) @@ (CKA_LABEL :> L1) @@ (CKA_TRUST_SERVER_AUTH :> TD),
              (CKA_CLASS :> CKO_CERTIFICATE) @@ (CKA_LABEL :> L1)
                  @@ (CKA_TRUST_SERVER_AUTH :> NT)}
TrustObjectLists == SeqsUpTo(TrustObjects, MaxTrustObjs)

\* embedded certificates: every combination of purpose bits a trusted
\* certificate can carry, over two payloads; trust arguments up to a bit no
\* certificate has
EmbeddedCert(label, trust, der) == [Label |-> label, Trust |-> trust, DER |-> der]
CertSample ==
    {EmbeddedCert(L1, t, <<"x48", "A">>) : t \in 1..7}
        \cup {EmbeddedCert(L2, t, <<"x48", "B">>) : t \in 1..7}
CertLists == SeqsUpTo(CertSample, MaxCerts)
TrustArgs == 0..8

\* what ReadTrustedCerts makes of the source of gencerts: certificates with
\* positive, zero and negative serial numbers, or an error; and the values
\* of the -target flag: none, a dash, names with and without an extension,
\* one with a dot in its directory only
ParsedCert(label, serial, der) ==
    [Label |-> label, Data |-> der, Cert |-> [Raw |-> der, SerialNumber |-> serial],
     Trust |-> [ServerTrustedDelegator |-> TRUE, EmailTrustedDelegator |-> FALSE,
                CodeTrustedDelegator |-> FALSE]]
ParsedSample ==
    {ParsedCert(L1, 5, <<"x48", "A">>), ParsedCert(L2, 0 - 3, <<"x48", "B">>),
     ParsedCert(L1, 0, <<"x48", "B">>), ParsedCert(L2, 0 - 1, <<"x48", "A">>)}
Sources ==
    {[certs |-> cs, err |-> Nil] : cs \in SeqsUpTo(ParsedSample, MaxCerts)}
        \cup {[certs |-> << >>, err |-> ErrNoBegin]}
OutputNames ==
    {<< >>, <<"-">>, <<"r", ".", "g", "o">>, <<"r">>, <<"d", ".", "x", "/", "r">>, <<".", "g", "o">>}

\* embedded lists of the pool: certificates with and without the server
\* bit, over two payloads
PoolCertSample ==
    {EmbeddedCert(L1, 1, <<"x48", "A">>), EmbeddedCert(L2, 5, <<"x48", "B">>),
     EmbeddedCert(L1, 6, <<"x48", "A">>), EmbeddedCert(L2, 2, <<"x48", "B">>)}
PoolCertLists == SeqsUpTo(PoolCertSample, MaxCerts)

\* http.DefaultTransport: the nil interface, the standard *http.Transport, or
\* another RoundTripper; the transport without a TLS configuration or with
\* one that has a server name and root CAs of its own or not
ForeignPool == 0 - 1
TransportKinds ==
    {NilInterface, [type |-> "*http.Transport", ptr |-> 1], [type |-> "*fakeTransport", ptr |-> 2]}
ConfigHeaps ==
    {<< >>} \cup {<<[ServerName |-> sn, RootCAs |-> rc]>> :
                      sn \in {"", "set-by-test"}, rc \in {0, ForeignPool}}

(***************************************************************************)
(* The state machine.  ms is the scanner; ret the outcome of the last call *)
(* of the scanner; values and objects what the caller has collected        *)
(* (objects is the list of ReadObjects); pc the position inside            *)
(* ReadTrustedCerts; trusted, certs and err its locals and results.        *)
(***************************************************************************)
NoCall == [op |-> "none", ok |-> FALSE, panic |-> FALSE]
NoResult == [called |-> FALSE, certs |-> << >>, err |-> Nil]

\* gencerts not run
GenIdle ==
    /\ outputFile = << >>
    /\ source = [certs |-> << >>, err |-> Nil]
    /\ target = NilWriter
    /\ target16 = NilWriter
    /\ tplParams = [certs |-> << >>]
    /\ files = NoFiles
    /\ mainpc = "idle"

\* the generated package before any call: no certificate, no pool, the
\* standard transport without a TLS configuration, no goroutine
PkgIdle ==
    /\ rootcerts = << >>
    /\ serverCertPool = 0
    /\ serverOnce = [done |-> FALSE, m |-> 0]
    /\ pools = << >>
    /\ DefaultTransport = [type |-> "*http.Transport", ptr |-> 1]
    /\ transport = [TLSClientConfig |-> 0]
    /\ configs = << >>
    /\ goroutines = << >>

InitParser(f, objs, at, bs) ==
    /\ first = NoResult
    /\ bytes = bs
    /\ PkgIdle
    /\ GenIdle
    /\ ms = NewMozScanner(f)
    /\ ret = NoCall
    /\ calls = 0
    /\ values = << >>
    /\ objects = objs
    /\ pc = at
    /\ trusted = << >>
    /\ certs = << >>
    /\ err = Nil

InitWith(f, objs, at) == InitParser(f, objs, at, << >>)

\* no parse in progress
ParserIdle ==
    /\ ms = NewMozScanner(<< >>)
    /\ ret = NoCall
    /\ calls = 0
    /\ values = << >>
    /\ objects = << >>
    /\ pc = "package"
    /\ trusted = << >>
    /\ certs = << >>
    /\ err = Nil
    /\ first = NoResult
    /\ bytes = << >>

\* a goroutine about to call op(arg)
NewGoroutine(op, arg) ==
    [op |-> op, arg |-> arg, pc |-> "call", res |-> Nil, pool |-> 0, list |-> << >>, i |-> 0]

InitPkg(cs, dt, tr, cf, gs) ==
    /\ ParserIdle
    /\ GenIdle
    /\ rootcerts = cs
    /\ serverCertPool = 0
    /\ serverOnce = [done |-> FALSE, m |-> 0]
    /\ pools = << >>
    /\ DefaultTransport = dt
    /\ transport = tr
    /\ configs = cf
    /\ goroutines = gs

InitByTrust ==
    \E cs \in CertLists, t \in TrustArgs :
        InitPkg(cs, [type |-> "*http.Transport", ptr |-> 1], [TLSClientConfig |-> 0], << >>,
                <<NewGoroutine("CertsByTrust", t)>>)

\* several goroutines call ServerCertPool
InitPool ==
    \E cs \in PoolCertLists, n \in 1..MaxGoroutines :
        InitPkg(cs, [type |-> "*http.Transport", ptr |-> 1], [TLSClientConfig |-> 0], << >>,
                [k \in 1..n |-> NewGoroutine("ServerCertPool", Nil)])

\* one goroutine calls UpdateDefaultTransport, others ServerCertPool
InitTransport ==
    \E cs \in PoolCertLists, dt \in TransportKinds, cf \in ConfigHeaps, n \in 1..MaxGoroutines :
        InitPkg(cs, dt, [TLSClientConfig |-> Len(cf)], cf,
                [k \in 1..n |-> IF k = 1 THEN NewGoroutine("UpdateDefaultTransport", Nil)
                                ELSE NewGoroutine("ServerCertPool", Nil)])

\* gencerts started with a -target flag on a source
InitGen ==
    \E name \in OutputNames, src \in Sources :
        /\ ParserIdle
        /\ PkgIdle
        /\ outputFile = name
        /\ source = src
        /\ target = NilWriter
        /\ target16 = NilWriter
        /\ tplParams = [certs |-> << >>]
        /\ files = NoFiles
        /\ mainpc = "target"

InitValue == \E f \in ValueInputs : InitWith(f, << >>, "ScanValue")
InitObject == \E f \in ObjectInputs : InitWith(f, << >>, "ScanObject")
InitTrust == \E objs \in TrustObjectLists : InitWith(<< >>, objs, "findTrusted")
InitOrder ==
    \E o \in SeqsUpTo(OrderObjects, MaxObjs) :
        InitWith(<<BEGINDATA>> \o Flatten(o), << >>, "ReadObjects")
Init == \E f \in CertdataInputs : InitWith(f, << >>, "ReadObjects")
InitEdge == \E f \in EdgeInputs : InitWith(f, << >>, "ScanValue")
InitUtf8 == \E f \in Utf8Inputs : InitWith(f, << >>, "ScanValue")
InitOctal ==
    \E bs \in ByteSeqs : \E cuts \in SUBSET (1..(Len(bs) - 1)) :
        InitParser(OctalBlock(bs, cuts), << >>, "ScanValue", bs)

\* for s.ScanValue() { values = append(values, s.Value()) }
RecordValue(r) ==
    /\ ms' = r.ms
    /\ ret' = [op |-> "ScanValue", ok |-> r.ok, panic |-> r.panic]
    /\ values' = IF r.ok THEN Append(values, Value(r.ms)) ELSE values

CallScanValue ==
    /\ pc = "ScanValue"
    /\ ~ret.panic
    /\ calls < MaxCalls
    /\ RecordValue(ScanValue(ms))
    /\ calls' = calls + 1
    /\ UNCHANGED <<objects, pc, trusted, certs, err>>
    /\ UNCHANGED <<first, bytes, pkgVars, genVars>>

\* for s.ScanObject() { objects = append(objects, s.Object()) }
RecordObject(r) ==
    /\ ms' = r.ms
    /\ ret' = [op |-> "ScanObject", ok |-> r.ok, panic |-> r.panic]
    /\ objects' = IF r.ok THEN Append(objects, Object(r.ms)) ELSE objects

CallScanObject ==
    /\ pc = "ScanObject"
    /\ ~ret.panic
    /\ calls < MaxCalls
    /\ RecordObject(ScanObject(ms))
    /\ calls' = calls + 1
    /\ UNCHANGED <<values, pc, trusted, certs, err>>
    /\ UNCHANGED <<first, bytes, pkgVars, genVars>>

\* ReadObjects, one iteration of its loop (the first one on the scanner
\* ReadObjects creates over its reader); on an error ReadTrustedCerts returns
\* nil and the error
ReadObjectsIteration(r) ==
    /\ ms' = r.ms
    /\ ret' = [op |-> "ScanObject", ok |-> r.ok, panic |-> r.panic]
    /\ objects' = IF r.panic THEN objects
                  ELSE IF r.ok THEN Append(objects, Object(r.ms))
                  ELSE IF ScanObjectError(r.ms) # Nil THEN << >>
                  ELSE objects
    /\ err' = IF ~r.panic /\ ~r.ok THEN ScanObjectError(r.ms) ELSE err
    /\ pc' = IF r.panic \/ r.ok THEN pc
             ELSE IF ScanObjectError(r.ms) # Nil THEN "done"
             ELSE "findTrusted"

ReadObjectsStep ==
    /\ pc = "ReadObjects"
    /\ ~ret.panic
    /\ calls < MaxCalls
    /\ ReadObjectsIteration(ScanObject(IF calls = 0 THEN NewMozScanner(ms.s.lines) ELSE ms))
    /\ calls' = calls + 1
    /\ UNCHANGED <<values, trusted, certs>>
    /\ UNCHANGED <<first, bytes, pkgVars, genVars>>

\* findTrusted returning the map built so far beside its error, and
\* ReadTrustedCerts returning the certificates that map trusts beside it
RECURSIVE findTrustedPartial(_, _, _)
findTrustedPartial(objs, i, acc) ==
    IF i > Len(objs) THEN [trusted |-> acc, err |-> Nil]
    ELSE IF Get(objs[i], CKA_CLASS) # CKO_NSS_TRUST THEN findTrustedPartial(objs, i + 1, acc)
    ELSE IF trustOf(objs[i], acc).err # Nil THEN [trusted |-> acc, err |-> trustOf(objs[i], acc).err]
    ELSE findTrustedPartial(objs, i + 1, trustOf(objs[i], acc).trusted)
FindTrustedStepPartial ==
    /\ pc = "findTrusted"
    /\ LET r == findTrustedPartial(objects, 1, << >>) IN
       /\ trusted' = r.trusted
       /\ err' = r.err
       /\ pc' = IF r.err # Nil THEN "done" ELSE "extract"
       /\ certs' = IF r.err # Nil THEN extractCerts(objects, 1, r.trusted, << >>) ELSE certs
    /\ UNCHANGED <<ms, ret, calls, values, objects>>
    /\ UNCHANGED <<first, bytes, pkgVars, genVars>>

\* trusted, err := findTrusted(objects)
FindTrustedStep ==
    /\ pc = "findTrusted"
    /\ LET r == findTrusted(objects) IN
       /\ trusted' = r.trusted
       /\ err' = r.err
       /\ pc' = IF r.err # Nil THEN "done" ELSE "extract"
    /\ UNCHANGED <<ms, ret, calls, values, objects, certs>>
    /\ UNCHANGED <<first, bytes, pkgVars, genVars>>

\* the loop over the objects and return certs, nil
ExtractStep ==
    /\ pc = "extract"
    /\ certs' = extractCerts(objects, 1, trusted, << >>)
    /\ pc' = "done"
    /\ UNCHANGED <<ms, ret, calls, values, objects, trusted, err>>
    /\ UNCHANGED <<first, bytes, pkgVars, genVars>>

\* a second ReadTrustedCerts call, on a new reader over the same input; the
\* outcome of the first call is kept in first
CallAgain ==
    /\ pc = "done"
    /\ ~first.called
    /\ first' = [called |-> TRUE, certs |-> certs, err |-> err]
    /\ ms' = NewMozScanner(ms.s.lines)
    /\ ret' = NoCall
    /\ calls' = 0
    /\ objects' = << >>
    /\ pc' = "ReadObjects"
    /\ trusted' = << >>
    /\ certs' = << >>
    /\ err' = Nil
    /\ UNCHANGED <<values, bytes, pkgVars, genVars>>

\* a second ReadTrustedCerts call, on the input with its trust declarations
\* moved; the outcome of the first call is kept in first
CallRearranged ==
    /\ pc = "done"
    /\ ~first.called
    /\ \E p \in Moves(ms.s.lines) :
          ms' = NewMozScanner(Rearranged(ms.s.lines, p))
    /\ first' = [called |-> TRUE, certs |-> certs, err |-> err]
    /\ ret' = NoCall
    /\ calls' = 0
    /\ objects' = << >>
    /\ pc' = "ReadObjects"
    /\ trusted' = << >>
    /\ certs' = << >>
    /\ err' = Nil
    /\ UNCHANGED <<values, bytes, pkgVars, genVars>>

\* main: the target is standard output, or the file and, when fmt16name
\* gives a name, the _16 file are created
OpenTarget ==
    /\ mainpc = "target"
    /\ IF outputFile = << >> \/ outputFile = <<"-">>
       THEN /\ target' = Stdout
            /\ target16' = target16
            /\ files' = files
       ELSE /\ target' = File(outputFile)
            /\ target16' = IF fmt16name(outputFile) # << >> THEN File(fmt16name(outputFile))
                           ELSE target16
            /\ files' = IF fmt16name(outputFile) # << >>
                        THEN Create(Create(files, outputFile), fmt16name(outputFile))
                        ELSE Create(files, outputFile)
    /\ mainpc' = "read"
    /\ UNCHANGED <<outputFile, source, tplParams>>
    /\ UNCHANGED <<parserVars, pkgVars>>

\* main: certs, err := certparse.ReadTrustedCerts(hashSource); fail on an
\* error, else the template parameters are built
ReadSource ==
    /\ mainpc = "read"
    /\ IF source.err # Nil
       THEN mainpc' = "exit 100" /\ tplParams' = tplParams
       ELSE mainpc' = "main" /\ tplParams' = [certs |-> source.certs]
    /\ UNCHANGED <<outputFile, source, target, target16, files>>
    /\ UNCHANGED <<parserVars, pkgVars>>

\* main: tpl.ExecuteTemplate(target, "main", tplParams)
ExecuteMain ==
    /\ mainpc = "main"
    /\ files' = ExecuteTemplate(files, target, "main", tplParams)
    /\ mainpc' = "go1.6"
    /\ UNCHANGED <<outputFile, source, target, target16, tplParams>>
    /\ UNCHANGED <<parserVars, pkgVars>>

\* main: if hasNeg(certs) && target16 != nil the go1.6 template is executed
ExecuteGo16 ==
    /\ mainpc = "go1.6"
    /\ files' = IF hasNeg(tplParams.certs) /\ target16 # NilWriter
                THEN ExecuteTemplate(files, target16, "go1.6", tplParams)
                ELSE files
    /\ mainpc' = "returned"
    /\ UNCHANGED <<outputFile, source, target, target16, tplParams>>
    /\ UNCHANGED <<parserVars, pkgVars>>

\* a goroutine calls CertsByTrust(t)
CallCertsByTrust ==
    \E k \in DOMAIN goroutines :
        /\ goroutines[k].op = "CertsByTrust"
        /\ goroutines[k].pc = "call"
        /\ goroutines' = [goroutines EXCEPT ![k].pc = "returned",
                                             ![k].res = CertsByTrust(goroutines[k].arg)]
        /\ UNCHANGED <<rootcerts, serverCertPool, serverOnce, pools, DefaultTransport,
                       transport, configs>>
        /\ UNCHANGED <<parserVars, genVars>>

\* UpdateDefaultTransport up to the call of ServerCertPool: the type
\* assertion and the test of t.TLSClientConfig
TypeAssert ==
    \E k \in DOMAIN goroutines :
        /\ goroutines[k].op = "UpdateDefaultTransport"
        /\ goroutines[k].pc = "call"
        /\ goroutines' =
              IF DefaultTransport.type = "*http.Transport"
              THEN [goroutines EXCEPT ![k].pc = "Do",
                                      ![k].arg = IF transport.TLSClientConfig = 0 THEN "new"
                                                 ELSE "set"]
              ELSE [goroutines EXCEPT ![k].pc = "returned", ![k].res = ErrNotTransport]
        /\ UNCHANGED <<rootcerts, serverCertPool, serverOnce, pools, DefaultTransport,
                       transport, configs>>
        /\ UNCHANGED <<parserVars, genVars>>

\* serverOnce.Do: the test of done without the lock
OnceDo ==
    \E k \in DOMAIN goroutines :
        /\ \/ goroutines[k].op = "ServerCertPool" /\ goroutines[k].pc = "call"
           \/ goroutines[k].pc = "Do"
        /\ goroutines' = [goroutines EXCEPT ![k].pc = IF serverOnce.done THEN "load" ELSE "lock"]
        /\ UNCHANGED <<rootcerts, serverCertPool, serverOnce, pools, DefaultTransport,
                       transport, configs>>
        /\ UNCHANGED <<parserVars, genVars>>

\* serverOnce.Do: the lock is taken and done tested again
OnceLock ==
    \E k \in DOMAIN goroutines :
        /\ goroutines[k].pc = "lock"
        /\ serverOnce.m = 0
        /\ serverOnce' = [serverOnce EXCEPT !.m = k]
        /\ goroutines' = [goroutines EXCEPT ![k].pc = IF onceMustRun(serverOnce) THEN "new"
                                                      ELSE "unlock"]
        /\ UNCHANGED <<rootcerts, serverCertPool, pools, DefaultTransport, transport, configs>>
        /\ UNCHANGED <<parserVars, genVars>>

\* serverCertPool = x509.NewCertPool() and the evaluation of the range
\* expression CertsByTrust(ServerTrustedDelegator)
NewCertPool ==
    \E k \in DOMAIN goroutines :
        /\ goroutines[k].pc = "new"
        /\ pools' = Append(pools, {})
        /\ serverCertPool' = Len(pools) + 1
        /\ goroutines' = [goroutines EXCEPT ![k].pc = "add", ![k].i = 1,
                                             ![k].list = CertsByTrust(ServerTrustedDelegator)]
        /\ UNCHANGED <<rootcerts, serverOnce, DefaultTransport, transport, configs>>
        /\ UNCHANGED <<parserVars, genVars>>

\* one iteration of the loop: serverCertPool.AddCert(c.X509Cert()); a panic
\* of X509Cert leaves the function through the deferred calls of Do
AddCert ==
    \E k \in DOMAIN goroutines :
        /\ goroutines[k].pc = "add"
        /\ goroutines[k].i <= Len(goroutines[k].list)
        /\ IF X509Cert(goroutines[k].list[goroutines[k].i]).panic
           THEN /\ goroutines' = [goroutines EXCEPT ![k].pc = "panicked"]
                /\ serverOnce' = [done |-> TRUE, m |-> 0]
                /\ pools' = pools
           ELSE /\ goroutines' = [goroutines EXCEPT ![k].i = goroutines[k].i + 1]
                /\ serverOnce' = serverOnce
                /\ pools' = [pools EXCEPT ![serverCertPool] =
                                 @ \cup {X509Cert(goroutines[k].list[goroutines[k].i]).cert}]
        /\ UNCHANGED <<rootcerts, serverCertPool, DefaultTransport, transport, configs>>
        /\ UNCHANGED <<parserVars, genVars>>

\* the function of Do returns: the deferred store of done
OnceDone ==
    \E k \in DOMAIN goroutines :
        /\ goroutines[k].pc = "add"
        /\ goroutines[k].i > Len(goroutines[k].list)
        /\ serverOnce' = [serverOnce EXCEPT !.done = TRUE]
        /\ goroutines' = [goroutines EXCEPT ![k].pc = "unlock"]
        /\ UNCHANGED <<rootcerts, serverCertPool, pools, DefaultTransport, transport, configs>>
        /\ UNCHANGED <<parserVars, genVars>>

\* the deferred unlock of Do
OnceUnlock ==
    \E k \in DOMAIN goroutines :
        /\ goroutines[k].pc = "unlock"
        /\ serverOnce' = [serverOnce EXCEPT !.m = 0]
        /\ goroutines' = [goroutines EXCEPT ![k].pc = "load"]
        /\ UNCHANGED <<rootcerts, serverCertPool, pools, DefaultTransport, transport, configs>>
        /\ UNCHANGED <<parserVars, genVars>>

\* return serverCertPool
ReturnPool ==
    \E k \in DOMAIN goroutines :
        /\ goroutines[k].pc = "load"
        /\ goroutines' =
              IF goroutines[k].op = "ServerCertPool"
              THEN [goroutines EXCEPT ![k].pc = "returned", ![k].pool = serverCertPool,
                                      ![k].res = serverCertPool]
              ELSE [goroutines EXCEPT ![k].pc = "store", ![k].pool = serverCertPool]
        /\ UNCHANGED <<rootcerts, serverCertPool, serverOnce, pools, DefaultTransport,
                       transport, configs>>
        /\ UNCHANGED <<parserVars, genVars>>

\* UpdateDefaultTransport after ServerCertPool has returned: a new tls.Config
\* is stored in the transport, or RootCAs of the existing one is assigned
StoreConfig ==
    \E k \in DOMAIN goroutines :
        /\ goroutines[k].pc = "store"
        /\ IF goroutines[k].arg = "new"
           THEN /\ configs' = Append(configs, [ZeroConfig EXCEPT !.RootCAs = goroutines[k].pool])
                /\ transport' = [transport EXCEPT !.TLSClientConfig = Len(configs) + 1]
           ELSE /\ configs' = setRootCAs(configs, transport.TLSClientConfig, goroutines[k].pool)
                /\ transport' = transport
        /\ goroutines' = [goroutines EXCEPT ![k].pc = "returned", ![k].res = Nil]
        /\ UNCHANGED <<rootcerts, serverCertPool, serverOnce, pools, DefaultTransport>>
        /\ UNCHANGED <<parserVars, genVars>>

NextPool ==
    OnceDo \/ OnceLock \/ NewCertPool \/ AddCert \/ OnceDone \/ OnceUnlock \/ ReturnPool
NextTransport == TypeAssert \/ NextPool \/ StoreConfig
NextByTrust == CallCertsByTrust
NextGen == OpenTarget \/ ReadSource \/ ExecuteMain \/ ExecuteGo16
NextOrder == ReadObjectsStep \/ FindTrustedStep \/ ExtractStep \/ CallRearranged
NextValue == CallScanValue
NextObject == CallScanObject
NextTrust == FindTrustedStep
Next == ReadObjectsStep \/ FindTrustedStep \/ ExtractStep \/ CallAgain

SpecPool == InitPool /\ [][NextPool]_vars
SpecTransport == InitTransport /\ [][NextTransport]_vars
SpecOrder == InitOrder /\ [][NextOrder]_vars
SpecGen == InitGen /\ [][NextGen]_vars
SpecByTrust == InitByTrust /\ [][NextByTrust]_vars
SpecEdge == InitEdge /\ [][NextValue]_vars
SpecUtf8 == InitUtf8 /\ [][NextValue]_vars
SpecOctal == InitOctal /\ [][NextValue]_vars
SpecValue == InitValue /\ [][NextValue]_vars
SpecObject == InitObject /\ [][NextObject]_vars
SpecTrust == InitTrust /\ [][NextTrust]_vars
Spec == Init /\ [][Next]_vars

(***************************************************************************)
(* Reference notions the properties are stated with.                       *)
(***************************************************************************)
Lines == ms.s.lines

\* the tokens successive ScanValue calls produce on a fresh scanner
RECURSIVE collectValues(_, _)
collectNext(r, acc) == IF r.ok THEN collectValues(r.ms, Append(acc, Value(r.ms))) ELSE acc
collectValues(m, acc) == collectNext(ScanValue(m), acc)

TokensOf(lines) == collectValues(NewMozScanner(lines), << >>)

\* the map of a run of tokens: each field with the value of its last token
MapOf(toks) ==
    [f \in {toks[i].Field : i \in 1..Len(toks)} |->
        toks[CHOOSE i \in 1..Len(toks) :
                /\ toks[i].Field = f
                /\ \A j \in (i + 1)..Len(toks) : toks[j].Field # f].Value]

ClassPositions(toks) == {i \in 1..Len(toks) : toks[i].Field = CKA_CLASS}

\* the segmentation of a token sequence at its CKA_CLASS tokens
Segments(toks) ==
    LET P == ClassPositions(toks)
        EndOf(i) == IF \E j \in P : j > i
                    THEN (CHOOSE j \in P : j > i /\ \A k \in P : k > i => j <= k) - 1
                    ELSE Len(toks)
        Nth(k) == CHOOSE i \in P : Cardinality({j \in P : j <= i}) = k
    IN [k \in 1..Cardinality(P) |-> MapOf(SubSeq(toks, Nth(k), EndOf(Nth(k))))]

IsPrefix(a, b) == Len(a) <= Len(b) /\ \A k \in 1..Len(a) : a[k] = b[k]

NoBegin(lines) == \A i \in 1..Len(lines) : lines[i] # BEGINDATA

\* the line the next ScanValue call of scanner m dispatches on (0: none)
Skipped(line) == Len(line) = 0 \/ Chars(line)[1] = "#" \/ Len(SplitN3(line)) < 2
BodyStart(m) ==
    IF m.skippedHeader THEN m.s.pos
    ELSE IF \E i \in (m.s.pos + 1)..Len(m.s.lines) : m.s.lines[i] = BEGINDATA
    THEN CHOOSE i \in (m.s.pos + 1)..Len(m.s.lines) :
            /\ m.s.lines[i] = BEGINDATA
            /\ \A j \in (m.s.pos + 1)..(i - 1) : m.s.lines[j] # BEGINDATA
    ELSE Len(m.s.lines)
NextFieldLine(m) ==
    LET C == {i \in (BodyStart(m) + 1)..Len(m.s.lines) : ~Skipped(m.s.lines[i])}
    IN IF C = {} THEN 0 ELSE CHOOSE i \in C : \A j \in C : i <= j
TypeOfLine(line) == SplitN3(line)[2]

\* the lines of the MULTILINE block opened at line i: up to the END line
BlockEnd(lines, i) ==
    IF \E j \in (i + 1)..Len(lines) : lines[j] = END
    THEN (CHOOSE j \in (i + 1)..Len(lines) :
             lines[j] = END /\ \A k \in (i + 1)..(j - 1) : lines[k] # END) - 1
    ELSE Len(lines)
Terminated(lines, i) == \E j \in (i + 1)..Len(lines) : lines[j] = END

\* the next call opens a MULTILINE value that no END line closes
OpensUnterminated(m) ==
    LET i == NextFieldLine(m) IN
    /\ i # 0
    /\ HasPrefix(TypeOfLine(m.s.lines[i]), MULTILINE)
    /\ ~Terminated(m.s.lines, i)

\* a line of 4-character groups, one of which is not a backslash followed
\* by three octal digits
MalformedOctalLine(line) ==
    LET c == Chars(line) IN
    /\ Len(c) % 4 = 0
    /\ \E g \in 0..((Len(c) \div 4) - 1) :
          ~(c[4 * g + 1] = BS /\ \A k \in 2..4 : c[4 * g + k] \in OctalDigits)

\* the next call opens a MULTILINE_OCTAL value with a malformed group
OpensMalformedOctal(m) ==
    LET i == NextFieldLine(m) IN
    /\ i # 0
    /\ TypeOfLine(m.s.lines[i]) = MULTILINE_ \o OCTAL
    /\ \E j \in (i + 1)..BlockEnd(m.s.lines, i) : MalformedOctalLine(m.s.lines[j])

(***************************************************************************)
(* Properties.                                                             *)
(***************************************************************************)
\* C1: when the input holds a CKA_CLASS token, once the stream is exhausted
\* (the call that exhausted it returned the object in progress) every later
\* ScanObject call returns false, whatever the last token was.
C1_FinalObjectOnce ==
    [][((\E i \in 1..Len(TokensOf(Lines)) : TokensOf(Lines)[i].Field = CKA_CLASS) /\ ms.s.done)
          => ~ret'.ok]_vars

\* C2: the objects returned by the successful ScanObject calls are, in
\* order, the segments of the token sequence cut at its CKA_CLASS tokens
\* (tokens before the first CKA_CLASS in none), and all of them once a call
\* has returned false; without a CKA_CLASS token there is no object and no
\* error.
C2_Segmentation ==
    (pc = "ScanObject" /\ ~NoBegin(Lines)) =>
        /\ IsPrefix(objects, Segments(TokensOf(Lines)))
        /\ (ret.op = "ScanObject" /\ ~ret.ok) =>
              (objects = Segments(TokensOf(Lines)) /\ ScanObjectError(ms) = Nil)

\* C3: on an input without a BEGINDATA line every ScanValue call returns
\* false with a non-nil ScanValueError and no token is ever produced.
C3_NoBeginNoTokens ==
    (pc = "ScanValue" /\ NoBegin(Lines)) =>
        /\ values = << >>
        /\ ret.op = "ScanValue" => (~ret.ok /\ ~ret.panic /\ ScanValueError(ms) # Nil)

\* C3 witness: two failed calls on an input that has field lines but no
\* BEGINDATA line.
C3_Witness ==
    /\ pc = "ScanValue" /\ NoBegin(Lines) /\ calls >= 2
    /\ \E i \in 1..Len(Lines) : Lines[i] = SpacedLine

\* C4: a ScanValue call that opens a MULTILINE value which no END line
\* closes returns false with a non-nil ScanValueError and produces no token.
C4_UnterminatedIsError ==
    [][(pc = "ScanValue" /\ OpensUnterminated(ms) /\ ~ret'.panic)
          => (~ret'.ok /\ ScanValueError(ms') # Nil /\ values' = values)]_vars

\* C5: a ScanValue call that opens a MULTILINE_OCTAL value holding a
\* malformed 4-character group returns false with a non-nil ScanValueError
\* and produces no token.
C5_MalformedOctalIsError ==
    [][(pc = "ScanValue" /\ OpensMalformedOctal(ms) /\ ~ret'.panic)
          => (~ret'.ok /\ ScanValueError(ms') # Nil /\ values' = values)]_vars

\* notions of the trust properties
TrustFields == {CKA_TRUST_SERVER_AUTH, CKA_TRUST_EMAIL_PROTECTION, CKA_TRUST_CODE_SIGNING}
IsTrustDecl(o) == Get(o, CKA_CLASS) = CKO_NSS_TRUST
IsCertObj(o) == Get(o, CKA_CLASS) = CKO_CERTIFICATE
KnownCodes(o) == \A f \in TrustFields : Get(o, f) \in {TD, MV, NT}
HasNotTrusted(o) == \E f \in TrustFields : Get(o, f) = NT
HasDelegator(o) == \E f \in TrustFields : Get(o, f) = TD
LevelOf(o) == [ServerTrustedDelegator |-> Get(o, CKA_TRUST_SERVER_AUTH) = TD,
               EmailTrustedDelegator |-> Get(o, CKA_TRUST_EMAIL_PROTECTION) = TD,
               CodeTrustedDelegator |-> Get(o, CKA_TRUST_CODE_SIGNING) = TD]
AnyBit(t) == t.ServerTrustedDelegator \/ t.EmailTrustedDelegator \/ t.CodeTrustedDelegator
Decls(objs) == {i \in 1..Len(objs) : IsTrustDecl(objs[i])}
OneDeclPerLabel(objs) ==
    \A i, j \in Decls(objs) : Get(objs[i], CKA_LABEL) = Get(objs[j], CKA_LABEL) => i = j
Resolved == pc \in {"extract", "done"}

\* the objects of the input, cut from its token sequence
InputObjects == Segments(TokensOf(Lines))

\* C6: when all trust fields use known codes, the label of a trust
\* declaration with a CKT_NSS_NOT_TRUSTED field is not a key of the trust map.
C6_NotTrustedVetoes ==
    (Resolved /\ \A i \in Decls(objects) : KnownCodes(objects[i])) =>
        \A i \in Decls(objects) :
            HasNotTrusted(objects[i]) => Get(objects[i], CKA_LABEL) \notin DOMAIN trusted

\* C7: with one trust declaration per label, known codes only and no
\* CKT_NSS_NOT_TRUSTED field, the keys of the trust map are the labels of
\* the declarations with a CKT_NSS_TRUSTED_DELEGATOR field, each purpose bit
\* is true iff its field is CKT_NSS_TRUSTED_DELEGATOR, and no entry has all
\* three bits false.
C7_TrustMapExact ==
    (/\ Resolved
     /\ OneDeclPerLabel(objects)
     /\ \A i \in Decls(objects) : KnownCodes(objects[i]) /\ ~HasNotTrusted(objects[i])) =>
        /\ err = Nil
        /\ DOMAIN trusted =
              {Get(objects[i], CKA_LABEL) : i \in {j \in Decls(objects) : HasDelegator(objects[j])}}
        /\ \A i \in Decls(objects) :
              HasDelegator(objects[i]) => trusted[Get(objects[i], CKA_LABEL)] = LevelOf(objects[i])
        /\ \A l \in DOMAIN trusted : AnyBit(trusted[l])

\* C7 witness: two declarations of different labels, one entered with a
\* false bit, the other (all must-verify) left out.
C7_Witness ==
    /\ Resolved /\ Len(objects) = 2 /\ Decls(objects) = {1, 2}
    /\ OneDeclPerLabel(objects)
    /\ \A i \in Decls(objects) : KnownCodes(objects[i]) /\ ~HasNotTrusted(objects[i])
    /\ DOMAIN trusted = {L1}
    /\ ~trusted[L1].EmailTrustedDelegator
    /\ \E i \in Decls(objects) : Get(objects[i], CKA_LABEL) = L2

\* C8: a trust declaration among the objects read from the input with a
\* server-auth, email-protection or code-signing field outside the three
\* known codes (or absent) makes ReadTrustedCerts return an error and no
\* certificate.
UnknownCodeFails(in) ==
    (Resolved /\ \E i \in 1..Len(in) : IsTrustDecl(in[i]) /\ ~KnownCodes(in[i])) =>
        (pc = "done" /\ err # Nil /\ certs = << >>)
C8_UnknownCodeFailsParse == UnknownCodeFails(objects)

\* C8 witness: the parse has failed on an unknown code although the input
\* also holds a decodable certificate whose label another declaration trusts.
UnknownCodeBesideTrusted(in) ==
    /\ \E i \in 1..Len(in) :
          IsTrustDecl(in[i]) /\ Get(in[i], CKA_TRUST_EMAIL_PROTECTION) = CKT_UNKNOWN
    /\ \E i, j \in 1..Len(in) :
          /\ IsCertObj(in[i]) /\ Get(in[i], CKA_VALUE) \in WellFormedDER
          /\ IsTrustDecl(in[j]) /\ KnownCodes(in[j])
          /\ ~HasNotTrusted(in[j]) /\ HasDelegator(in[j])
          /\ Get(in[j], CKA_LABEL) = Get(in[i], CKA_LABEL)
C8_Witness ==
    /\ pc = "done" /\ err = ErrUnknownTrust /\ certs = << >>
    /\ UnknownCodeBesideTrusted(InputObjects)

\* the example input: a decodable certificate, a declaration of the same
\* label with server-auth trusted-delegator, email not-trusted and
\* code-signing must-verify, and one unrelated object, in any order
ExampleInput(objs) ==
    /\ Len(objs) = 3
    /\ \E c, t, u \in 1..3 :
          /\ {c, t, u} = {1, 2, 3}
          /\ IsCertObj(objs[c]) /\ Get(objs[c], CKA_VALUE) \in WellFormedDER
          /\ IsTrustDecl(objs[t]) /\ Get(objs[t], CKA_LABEL) = Get(objs[c], CKA_LABEL)
          /\ Get(objs[t], CKA_TRUST_SERVER_AUTH) = TD
          /\ Get(objs[t], CKA_TRUST_EMAIL_PROTECTION) = NT
          /\ Get(objs[t], CKA_TRUST_CODE_SIGNING) = MV
          /\ ~IsCertObj(objs[u]) /\ ~IsTrustDecl(objs[u])

\* C9 as stated: the example input yields exactly one certificate record,
\* with trust {server: true, email: false, code: false}.
C9_ExampleYieldsOneCert ==
    (pc = "done" /\ ExampleInput(InputObjects)) =>
        /\ err = Nil
        /\ Len(certs) = 1
        /\ certs[1].Trust = [ServerTrustedDelegator |-> TRUE, EmailTrustedDelegator |-> FALSE,
                             CodeTrustedDelegator |-> FALSE]

\* C9 amended: the example input yields no certificate record and no error
\* (the not-trusted email field discards the whole declaration).
C9_ExampleYieldsNoCert ==
    (pc = "done" /\ ExampleInput(InputObjects)) => (err = Nil /\ certs = << >>)

\* C9 witness: ReadTrustedCerts has returned on the example input.
C9_Witness == pc = "done" /\ ExampleInput(InputObjects)

\* C10: every certificate record of the result holds a decoded certificate,
\* a trust with at least one purpose bit, and as Data the CKA_VALUE bytes of
\* a certificate object of the input with its label.
RecordsSound(in) ==
    \A k \in 1..Len(certs) :
        /\ ParseCertificate(certs[k].Data).err = Nil
        /\ certs[k].Cert = ParseCertificate(certs[k].Data).cert
        /\ AnyBit(certs[k].Trust)
        /\ \E i \in 1..Len(in) :
              /\ IsCertObj(in[i])
              /\ Get(in[i], CKA_LABEL) = certs[k].Label
              /\ Get(in[i], CKA_VALUE) = certs[k].Data
C10_RecordsSound == certs # << >> => RecordsSound(InputObjects)

\* C10 witness: a record has been emitted while a certificate object with an
\* undecodable payload and a trusted label was left out.
UndecodableTrusted(in) ==
    \E i \in 1..Len(in) :
        /\ IsCertObj(in[i])
        /\ Get(in[i], CKA_LABEL) \in DOMAIN trusted
        /\ Get(in[i], CKA_VALUE) \notin WellFormedDER
C10_Witness == pc = "done" /\ Len(certs) >= 1 /\ UndecodableTrusted(InputObjects)
\* the certificate objects of the input that the trust map tm and the
\* decoder let through
Qualifies(o, tm) ==
    IsCertObj(o) /\ Get(o, CKA_LABEL) \in DOMAIN tm /\ Get(o, CKA_VALUE) \in WellFormedDER
Qualified(in, tm) == SelectSeq(in, LAMBDA o : Qualifies(o, tm))

\* C11: when object reading and trust resolution succeed, the returned list
\* is, in input order, the certificate objects whose label is a key of the
\* trust map and whose payload decodes, each with the trust of its label;
\* other certificate objects are left out without an error.
ListIsQualified(q) ==
    /\ Len(certs) = Len(q)
    /\ \A k \in 1..Len(q) :
          /\ certs[k].Label = Get(q[k], CKA_LABEL)
          /\ certs[k].Data = Get(q[k], CKA_VALUE)
          /\ certs[k].Trust = trusted[Get(q[k], CKA_LABEL)]
C11_ListIsTrustedSubsequence ==
    (pc = "done" /\ err = Nil) => ListIsQualified(Qualified(InputObjects, trusted))

\* C11 witness: one record was returned while a decodable certificate of an
\* undeclared label standing before it was left out.
ExcludedBeforeKept(in) ==
    /\ Len(certs) = 1 /\ Len(in) = 3
    /\ IsCertObj(in[1]) /\ Get(in[1], CKA_VALUE) \in WellFormedDER
    /\ Get(in[1], CKA_LABEL) \notin DOMAIN trusted
    /\ IsCertObj(in[2])
C11_Witness == pc = "done" /\ err = Nil /\ ExcludedBeforeKept(InputObjects)
BytesToString(bs) == [i \in 1..Len(bs) |-> Chr(bs[i])]
Ord(c) == CHOOSE n \in 0..255 : Chr(n) = c
StringToBytes(v) == [i \in 1..Len(v) |-> Ord(v[i])]

\* the value of the first token of a scan of the block that holds the bytes
\* bs on one line
DecodeOf(toks) == IF toks = << >> THEN <<"no token">> ELSE toks[1].Value
Redecoded(bs) == DecodeOf(TokensOf(OctalBlock(bs, {})))

\* C13: a MULTILINE_OCTAL block that holds the groups of a byte sequence B,
\* split over any number of lines and closed by END, scans as one token whose
\* value is exactly B; encoding that value again and decoding it gives B.
C13_OctalRoundTrip ==
    (pc = "ScanValue" /\ calls >= 1) =>
        /\ ~ret.panic
        /\ Len(values) = 1
        /\ values[1].Type = MULTILINE_ \o OCTAL
        /\ values[1].Value = BytesToString(bytes)
        /\ calls = 1 => Redecoded(StringToBytes(values[1].Value)) = BytesToString(bytes)

\* C13 witness: three bytes, among them one above 127 and the zero byte,
\* split over two lines, have been decoded.
C13_Witness ==
    /\ pc = "ScanValue" /\ calls = 1 /\ ret.ok
    /\ Len(bytes) = 3 /\ 255 \in {bytes[i] : i \in 1..3} /\ 0 \in {bytes[i] : i \in 1..3}
    /\ Len(ms.s.lines) = 5
\* the segments of a line: the text before its first space, the text between
\* the first and the second space, and everything after the second space
Spaces(line) == {i \in 1..Len(line) : line[i] = SP}
FirstOf(S) == CHOOSE x \in S : \A y \in S : x <= y
FirstSpace(line) == FirstOf(Spaces(line))
LaterSpaces(line) == {i \in Spaces(line) : i > FirstSpace(line)}
FieldSegment(line) == SubSeq(line, 1, FirstSpace(line) - 1)
TypeSegment(line) ==
    IF LaterSpaces(line) = {} THEN SubSeq(line, FirstSpace(line) + 1, Len(line))
    ELSE SubSeq(line, FirstSpace(line) + 1, FirstOf(LaterSpaces(line)) - 1)
Remainder(line) ==
    IF LaterSpaces(line) = {} THEN EmptyStr
    ELSE SubSeq(line, FirstOf(LaterSpaces(line)) + 1, Len(line))

\* line is a single-line field that is neither UTF8 nor MULTILINE
IsPlainField(line) == TypeSegment(line) # UTF8 /\ ~HasPrefix(TypeSegment(line), MULTILINE)
PlainToken(line) ==
    [Field |-> FieldSegment(line), Type |-> TypeSegment(line), Value |-> Remainder(line)]
ReturnsToken(tok) == ret'.ok /\ ~ret'.panic /\ Value(ms') = tok /\ values' = Append(values, tok)
PlainFieldStep(i) ==
    (i # 0 /\ IsPlainField(ms.s.lines[i])) => ReturnsToken(PlainToken(ms.s.lines[i]))

\* C14: for a line after BEGINDATA with at least two space-delimited segments
\* (not a comment) whose type is neither UTF8 nor prefixed MULTILINE,
\* ScanValue returns the token of its first segment, its second segment and
\* the rest of the line verbatim, empty when there is no third segment
\* whatever the token before was.
C14_SingleLineVerbatim == [][pc = "ScanValue" => PlainFieldStep(NextFieldLine(ms))]_vars

\* C14 witness: a token with an empty value has been returned right after a
\* token whose value holds a space.
C14_Witness ==
    /\ pc = "ScanValue" /\ Len(values) >= 2
    /\ values[Len(values)] = [Field |-> <<"F">>, Type |-> <<"T">>, Value |-> EmptyStr]
    /\ values[Len(values) - 1].Value = <<"v", SP, "w">>
\* line i opens a MULTILINE block of a sub-type other than OCTAL that an END
\* line closes
IsGenericBlock(lines, i) ==
    /\ HasPrefix(TypeSegment(lines[i]), MULTILINE_)
    /\ TypeSegment(lines[i]) # MULTILINE_ \o OCTAL
    /\ Terminated(lines, i)
BlockLines(lines, i) == SubSeq(lines, i + 1, BlockEnd(lines, i))
ConsumedBlock(lines, i) ==
    /\ ret'.ok /\ ~ret'.panic /\ ScanValueError(ms') = Nil
    /\ ms'.s.pos = BlockEnd(lines, i) + 1
    /\ Value(ms').Field = FieldSegment(lines[i])
    /\ Value(ms').Type = TypeSegment(lines[i])
GenericJoinedStep(i) ==
    (i # 0 /\ IsGenericBlock(ms.s.lines, i)) =>
        (ConsumedBlock(ms.s.lines, i) /\ Value(ms').Value = Join(BlockLines(ms.s.lines, i)))
GenericDiscardedStep(i) ==
    (i # 0 /\ IsGenericBlock(ms.s.lines, i)) =>
        (ConsumedBlock(ms.s.lines, i) /\ Value(ms').Value = EmptyStr)

\* C15 as stated: for a MULTILINE field of a sub-type other than OCTAL,
\* ScanValue consumes the lines up to and including the END line and returns
\* a token whose value is the raw lines of the block joined by newlines.
C15_GenericValueJoined == [][pc = "ScanValue" => GenericJoinedStep(NextFieldLine(ms))]_vars

\* C15 amended: for a MULTILINE field of a sub-type other than OCTAL,
\* ScanValue consumes the lines up to and including the END line and returns
\* a token whose value is the empty string (the lines are discarded).
C15_GenericValueDiscarded == [][pc = "ScanValue" => GenericDiscardedStep(NextFieldLine(ms))]_vars

\* C15 witness: the token of a MULTILINE_UNKNOWN field has been returned with
\* the scanner on the END line of a block that is not empty.
C15_Witness ==
    /\ pc = "ScanValue" /\ ret.ok
    /\ Value(ms).Type = <<"MULTILINE", "_", "UNKNOWN">>
    /\ ms.s.pos >= 4 /\ Text(ms.s) = END
    /\ ms.s.lines[ms.s.pos - 1] \notin {END, GenericOpen}

\* line is a UTF8 field with an inline region
IsUtf8Field(line) == TypeSegment(line) = UTF8 /\ LaterSpaces(line) # {}
Utf8ValueOf(region) ==
    IF Unquote(region).err = Nil THEN Unquote(region).v
    ELSE SubSeq(region, 2, Len(region) - 1)
Utf8Step(i) ==
    (i # 0 /\ IsUtf8Field(ms.s.lines[i])) =>
        /\ ~ret'.panic /\ ret'.ok /\ ScanValueError(ms') = Nil
        /\ Value(ms').Value = Utf8ValueOf(Remainder(ms.s.lines[i]))

\* C16: for a UTF8 line with an inline region of any length, ScanValue
\* returns a token whose value is the unquoted region when the region is a
\* valid quoted string and the region without its first and last character
\* otherwise; the call never fails or aborts.
C16_Utf8AlwaysToken == [][pc = "ScanValue" => Utf8Step(NextFieldLine(ms))]_vars

\* C17: a ScanObject call during which a ScanValue call failed with an error
\* (every ScanObject call makes at least one ScanValue call and returns on
\* the first that fails, so the error is the one ScanValueError holds after
\* the call) returns false, ScanObjectError returns that error and no object
\* is handed out; a ScanObject call that returns false at the ordinary end
\* of the input leaves ScanObjectError nil.
C17_ObjectErrorSurfaced ==
    [][(pc = "ScanObject" /\ ~ret'.panic)
          => /\ ScanValueError(ms') # Nil
                  => /\ ~ret'.ok
                     /\ ScanObjectError(ms') = ScanValueError(ms')
                     /\ objects' = objects /\ Object(ms') = Object(ms)
             /\ (~ret'.ok /\ ScanValueError(ms') = Nil) => ScanObjectError(ms') = Nil]_vars

\* C17 witness: a ScanObject call has returned false with the tokenizer's
\* error on an input that holds CKA_CLASS lines.
C17_Witness ==
    /\ pc = "ScanObject" /\ ret.op = "ScanObject" /\ ~ret.ok
    /\ ScanObjectError(ms) = ErrNoBegin
    /\ \E i \in 1..Len(Lines) : Lines[i] = ClassLineA

\* the purpose bits of a trust level
BitsOf(n) == {k \in 0..3 : (n \div (2 ^ k)) % 2 = 1}
HasAllBits(c, t) == BitsOf(t) \subseteq BitsOf(c.Trust)

HasServerBit(c) == 0 \in BitsOf(c.Trust)
ServerCerts == {[Raw |-> rootcerts[i].DER] : i \in {j \in 1..Len(rootcerts) : HasServerBit(rootcerts[j])}}
Returned20(k) == goroutines[k].op = "ServerCertPool" /\ goroutines[k].pc = "returned"

\* C20: the pool is built at most once, and every ServerCertPool call,
\* concurrent ones included, returns that one pool, holding exactly the
\* certificates of CertsByTrust(ServerTrustedDelegator).
C20_OnePoolComplete ==
    /\ Len(pools) <= 1
    /\ \A k \in DOMAIN goroutines :
          Returned20(k) =>
              /\ goroutines[k].res # 0
              /\ goroutines[k].res = serverCertPool
              /\ pools[goroutines[k].res] = ServerCerts
              /\ pools[goroutines[k].res] =
                    {X509Cert(CertsByTrust(ServerTrustedDelegator)[i]).cert :
                        i \in 1..Len(CertsByTrust(ServerTrustedDelegator))}

\* C20 witness: two goroutines have returned the same pool, which holds the
\* two certificates of the list.
C20_Witness ==
    /\ Len(goroutines) >= 2 /\ Returned20(1) /\ Returned20(2)
    /\ goroutines[1].res = goroutines[2].res
    /\ Cardinality(pools[serverCertPool]) = 2

\* the goroutine that calls UpdateDefaultTransport
Updater == goroutines[1]
IsTransport == DefaultTransport.type = "*http.Transport"

\* the state UpdateDefaultTransport returns in
UpdateOutcome ==
    Updater.pc = "returned" =>
        IF IsTransport
        THEN /\ Updater.res = Nil
             /\ transport.TLSClientConfig # 0
             /\ serverCertPool # 0
             /\ configs[transport.TLSClientConfig].RootCAs = serverCertPool
             /\ pools[serverCertPool] = ServerCerts
        ELSE Updater.res # Nil

\* what a step may change of the transport and its configuration
UpdateFrame ==
    /\ DefaultTransport' = DefaultTransport
    /\ ~IsTransport => (transport' = transport /\ configs' = configs)
    /\ (~IsTransport /\ Len(goroutines) = 1) =>
          UNCHANGED <<serverCertPool, serverOnce, pools>>
    /\ transport.TLSClientConfig # 0 =>
          /\ transport' = transport
          /\ DOMAIN configs' = DOMAIN configs
          /\ \A id \in DOMAIN configs : configs'[id].ServerName = configs[id].ServerName
    /\ (transport.TLSClientConfig = 0 /\ transport'.TLSClientConfig # 0) =>
          /\ transport'.TLSClientConfig \notin DOMAIN configs
          /\ transport'.TLSClientConfig \in DOMAIN configs'
          /\ configs'[transport'.TLSClientConfig].ServerName = ZeroConfig.ServerName
          /\ \A id \in DOMAIN configs : configs'[id] = configs[id]

\* C18: with an *http.Transport as http.DefaultTransport,
\* UpdateDefaultTransport returns nil and leaves the transport's
\* TLSClientConfig.RootCAs equal to the server pool, in a new configuration
\* when there was none and in the existing one, changed in nothing else,
\* otherwise; with a nil or other http.DefaultTransport it returns an error
\* and changes nothing.
C18_UpdateDefaultTransport == [][UpdateFrame /\ UpdateOutcome']_vars

\* C18 witness: the call has returned nil on a transport whose configuration
\* still has the server name it was given and now the complete server pool.
C18_Witness ==
    /\ Updater.op = "UpdateDefaultTransport" /\ Updater.pc = "returned" /\ Updater.res = Nil
    /\ Len(configs) = 1 /\ configs[1].ServerName = "set-by-test"
    /\ configs[1].RootCAs = serverCertPool
    /\ Cardinality(pools[serverCertPool]) = 2

\* the tokens of the k-th object of a token sequence: from its k-th CKA_CLASS
\* token up to the token before the next one
NthClass(toks, k) ==
    CHOOSE i \in ClassPositions(toks) : Cardinality({j \in ClassPositions(toks) : j <= i}) = k
LastBefore(toks, i) ==
    IF \E j \in ClassPositions(toks) : j > i
    THEN (CHOOSE j \in ClassPositions(toks) :
             j > i /\ \A k \in ClassPositions(toks) : k > i => j <= k) - 1
    ELSE Len(toks)
ObjectTokens(toks, k) == SubSeq(toks, NthClass(toks, k), LastBefore(toks, NthClass(toks, k)))

\* field f recurs in the run seg, the last time with value v
Recurs(seg, f) == Cardinality({i \in 1..Len(seg) : seg[i].Field = f}) >= 2
LastValueIs(seg, f, v) ==
    \E i \in 1..Len(seg) :
        /\ seg[i].Field = f /\ seg[i].Value = v
        /\ \A j \in (i + 1)..Len(seg) : seg[j].Field # f

\* object obj was built from the run seg with last-write-wins on the
\* fields that recur
LastWriteWins(obj, seg) ==
    \A i \in 1..Len(seg) :
        Recurs(seg, seg[i].Field) =>
            /\ seg[i].Field \in DOMAIN obj
            /\ LastValueIs(seg, seg[i].Field, obj[seg[i].Field])
ObjectsLastWriteWins(toks) ==
    \A n \in 1..Len(objects) :
        n <= Cardinality(ClassPositions(toks)) => LastWriteWins(objects[n], ObjectTokens(toks, n))

\* C22: when a field name occurs in several tokens of one object (before the
\* next CKA_CLASS token), the object ScanObject returns maps the field to
\* the value of the last of them, and ScanObject reports no error.
C22_LastWriteWins ==
    (pc = "ScanObject" /\ ~NoBegin(Lines)) =>
        (ObjectsLastWriteWins(TokensOf(Lines)) /\ ScanObjectError(ms) = Nil /\ ~ret.panic)

\* C22 witness: ScanObject has returned an object whose field X was given
\* as 1 and then as 2, and the object maps X to 2.
C22_Witness ==
    /\ pc = "ScanObject" /\ ret.ok /\ Len(objects) = 1
    /\ Lines = <<BEGINDATA, ClassLineA, FieldX1, FieldX2, FieldY1>>
    /\ objects[1] = (CKA_CLASS :> <<"a">>) @@ (<<"X">> :> <<"2">>) @@ (<<"Y">> :> <<"1">>)

\* the declarations of label l, and the last of them in input order
DeclsOf(objs, l) == {i \in Decls(objs) : Get(objs[i], CKA_LABEL) = l}
LastDecl(objs, l) == CHOOSE i \in DeclsOf(objs, l) : \A j \in DeclsOf(objs, l) : j <= i
\* the trust a declaration by itself gives its label: none on a
\* CKT_NSS_NOT_TRUSTED field or without a CKT_NSS_TRUSTED_DELEGATOR field
GivesTrust(o) == HasDelegator(o) /\ ~HasNotTrusted(o)

\* C23: for a label with more than one trust declaration, the trust map
\* holds what the last declaration in input order gives: its level when it
\* gives trust, no entry when it gives none, whatever the earlier ones said.
C23_LastDeclarationWins ==
    (Resolved /\ err = Nil) =>
        \A i \in Decls(objects) :
            LET l == Get(objects[i], CKA_LABEL) IN
            Cardinality(DeclsOf(objects, l)) >= 2 =>
                IF GivesTrust(objects[LastDecl(objects, l)])
                THEN l \in DOMAIN trusted /\ trusted[l] = LevelOf(objects[LastDecl(objects, l)])
                ELSE l \notin DOMAIN trusted

\* the errors of the tokenizer
TokenizerErrors == {ErrNoBegin, ErrEOF, ErrParseInt}

\* C24: when ReadTrustedCerts returns an error its certificate list is nil,
\* and when the error is the tokenizer's (ReadObjects returned it) the
\* object list of ReadObjects is nil too: nothing accumulated before the
\* failure is returned.
C24_NoPartialResult ==
    (pc = "done" /\ err # Nil) =>
        /\ certs = << >>
        /\ err \in TokenizerErrors => objects = << >>

\* C24 witness: the parse has failed on a trust declaration that stands
\* behind a decodable certificate and a declaration that trusts its label.
C24_Witness ==
    /\ pc = "done" /\ err = ErrUnknownTrust /\ Len(objects) = 3
    /\ IsCertObj(objects[1]) /\ Get(objects[1], CKA_VALUE) \in WellFormedDER
    /\ IsTrustDecl(objects[2]) /\ GivesTrust(objects[2]) /\ KnownCodes(objects[2])
    /\ Get(objects[2], CKA_LABEL) = Get(objects[1], CKA_LABEL)
    /\ IsTrustDecl(objects[3]) /\ ~KnownCodes(objects[3])

\* the number of CKA_CLASS tokens of a token sequence
ClassCount(toks) == Cardinality(ClassPositions(toks))
IterationsBounded(n) ==
    /\ pc = "ReadObjects" => Len(objects) <= n
    /\ pc = "findTrusted" => Len(objects) = n

\* C25: the loop of ReadObjects appends at most one object per CKA_CLASS
\* token of the input (so it ends on every finite input), and the list it
\* returns has exactly one object per CKA_CLASS token.
C25_ReadObjectsTerminates == IterationsBounded(ClassCount(TokensOf(Lines)))

\* C26: ReadTrustedCerts returns the same certificate list (and the same
\* error) on an input and on the input with its trust declarations moved
\* before or after the other objects, the certificates keeping their order
\* and the declarations theirs, whenever it returns on both.
C26_PositionIndependent ==
    (pc = "done" /\ first.called) => (certs = first.certs /\ err = first.err)

\* C26 witness: a certificate was returned from an input that has its
\* trust declaration in front of it, after it had been returned from the
\* input that has the declaration behind it.
C26_Witness ==
    /\ pc = "done" /\ first.called /\ Len(first.certs) = 1 /\ Len(certs) = 1
    /\ Len(objects) = 2 /\ IsTrustDecl(objects[1]) /\ IsCertObj(objects[2])
    /\ Lines = <<BEGINDATA>> \o TrustLines(L1, TD, MV, MV) \o CertLines(L1, GoodDER)

\* C27: whatever lines follow BEGINDATA, every ScanValue call returns (true
\* with a token, or false) and none aborts with an out-of-range fault, a
\* type tag that is exactly MULTILINE and a MULTILINE_OCTAL line whose
\* length is not a multiple of 4 included.
C27_ScanValueNeverFaults == pc = "ScanValue" => ~ret.panic

\* the entries of the certificates of cs with a negative serial number, and
\* of the others
Negatives(cs) == SelectSeq(cs, LAMBDA c : c.Cert.SerialNumber < 0)
NonNegatives(cs) == SelectSeq(cs, LAMBDA c : c.Cert.SerialNumber >= 0)
EntriesOf(cs) == [k \in 1..Len(cs) |-> Entry(cs[k])]
HoldsOnly(w, name, cs) ==
    w \in DOMAIN files /\ files[w] = <<[tpl |-> name, certs |-> EntriesOf(cs)]>>
BothOutputs ==
    /\ HoldsOnly(target, "main", NonNegatives(source.certs))
    /\ target16 # NilWriter /\ target16 # target
    /\ HoldsOnly(target16, "go1.6", Negatives(source.certs))

\* C21: when the parsed trusted certificates include one with a negative
\* serial number, gencerts has written, at its return, the main output with
\* exactly the certificates of non-negative serial number and a second
\* output with exactly those of negative serial number, whatever the target
\* (standard output, a file name with an extension, one without).
C21_NegativesInSecondOutput ==
    (mainpc = "returned" /\ Negatives(source.certs) # << >>) => BothOutputs

====
